---- MODULE Spec2Model ----
(***************************************************************************)
(* SuperDoc VS Code extension: the host side (src/src/                     *)
(* superdocEditorProvider.ts: command-file bridge, message handler, file   *)
(* watcher, SuperDocDocument) and the webview side (src/webview/main.js:   *)
(* editor lifecycle, debounced autosave, command execution), joined by the *)
(* two postMessage channels.                                               *)
(*                                                                         *)
(* Document bytes and editor contents are revision numbers: every mutation *)
(* (command, user edit, external modification) produces a fresh revision,  *)
(* and import/export carry a revision unchanged (the DOCX codec is the     *)
(* external library's).  Time is in milliseconds.                          *)
(***************************************************************************)
EXTENDS Integers, Sequences, FiniteSets, TLC

\* ---------------------------------------------------------------- bounds
MaxRequests == 2
MaxDupEvents == 2
MaxRev == 3
MaxInst == 3
MaxNow == 3000
MaxExternal == 1
MaxTimers == 2
MaxMatches == 3
MaxText == 4
MaxSearch == 2
MaxReplacement == 3
MaxNodes == 3
MaxBlocks == 2
MaxTable == 2
MaxEntries == 2
MaxCalls == 3
MaxTocs == 2
MaxTocTicks == 1
MaxRedirects == 3
MaxDocs == 2
MaxExports == 2
MaxChanges == 4
TickMs == 500

\* ------------------------------------------------------ program constants
AUTO_SAVE_DELAY == 1000
SUPPRESS_WINDOW == 1000

\* A request file without an "id" field parses to id = undefined.
NoId == "undefined"
Ids == {"r1", NoId}
NoPath == "none"
CmdPath == ".superdoc/doc.json"
DefaultUser == "Claude"

\* Handlers whose edits are meant to be tracked as suggestions.
Tracked == {"replaceText", "insertContent", "deleteNode", "insertTable"}
COMMANDS == Tracked \cup {"getText", "formatText", "insertImage", "insertTableOfContents"}
Mutating(c) == c \in COMMANDS \ {"getText"}
\* A command name with no entry in COMMANDS.
Unknown == "bogus"

\* What the external agent may write into the command file: {id, command, args}.
\* src is args.src: "data" a data: URI, "path" a file path or URL, "none" absent.
Requests ==
  { [kind |-> "request", id |-> i, command |-> c, src |-> s, success |-> FALSE, result |-> 0,
      seq |-> 0] :
      i \in Ids, c \in {"getText", "replaceText"}, s \in {"none"} }
  \cup
  { [kind |-> "request", id |-> i, command |-> "insertImage", src |-> s, success |-> FALSE,
      result |-> 0, seq |-> 0] :
      i \in Ids, s \in {"data", "path"} }

NoFile == [kind |-> "absent", id |-> NoId, command |-> "", src |-> "none", success |-> FALSE,
           result |-> 0, seq |-> 0]

\* JSON.stringify(result): {id, success, result?, error?}; no "command" field.
\* result is the handler's payload, kept as the revision the command produced
\* (0 when it produced none).
Response(i, ok, r) ==
  [kind |-> "response", id |-> i, command |-> "", src |-> "none", success |-> ok, result |-> r,
   seq |-> 0]

Msg(t, i, c, s, d, ok, r) ==
  [type |-> t, id |-> i, command |-> c, src |-> s, content |-> d, success |-> ok, result |-> r]

VARIABLES
  \* host: command channel bridge
  cmdFile, watchEvents, started, processing, converting, pendingCommands,
  agentWrites, dispatches,
  \* channels
  toWebview, toHost,
  \* host: SuperDocDocument and the backing file
  docData, lastSaveTime, writing, fileBytes, fileEvents, reading, externalWrites,
  \* clock
  now,
  \* webview
  editor, inst, isInitialLoad, saveTimeout, timers, timersMade, saves, nextRev,
  \* history
  savedRev, lastChange, handled, lastReload, fileWriter,
  \* history of the command engine: mutations applied, last handler return,
  \* number of commandResult messages posted
  applied, returned, answered,
  \* anchor resolution: number of matches of the search text, args.occurrence,
  \* what findMatch returned, what cmdReplaceText selected
  matchCount, occurrence, found, toReplace,
  \* one command handler on document contents: its arguments, the document it
  \* runs on, and what it returns together with the document it leaves
  args, doc, ret,
  \* the handlers run so far in a sequence of commands on the same document
  calls

bridgeVars == <<cmdFile, watchEvents, started, processing, converting, pendingCommands,
                agentWrites, dispatches>>
docVars == <<docData, lastSaveTime, writing, fileBytes, fileEvents, reading, externalWrites>>
webVars == <<editor, inst, isInitialLoad, saveTimeout, timers, timersMade, saves, nextRev>>
engineHist == <<applied, returned, answered>>
matchVars == <<matchCount, occurrence, found, toReplace>>
editVars == <<args, doc, ret, calls>>
histVars == <<savedRev, lastChange, handled, lastReload, fileWriter, engineHist, matchVars,
              editVars>>
\* everything but the handler under study
sessionVars == <<bridgeVars, toWebview, toHost, docVars, now, webVars, savedRev, lastChange,
                 handled, lastReload, fileWriter, engineHist, matchVars>>
vars == <<bridgeVars, toWebview, toHost, docVars, now, webVars, histVars>>

Insts == 1..MaxInst
FreshInst == {i \in Insts : inst[i].st = "none"}
NewInst(d) == [st |-> "loading", mode |-> "editing", user |-> DefaultUser, content |-> d,
               listener |-> FALSE]
NoInst == [st |-> "none", mode |-> "editing", user |-> DefaultUser, content |-> 0,
           listener |-> FALSE]
\* editor?.activeEditor is non-null once the library has created the editor.
HasActiveEditor(i) == i # 0 /\ inst[i].st \in {"created", "ready"}

\* What a handler's return left behind (history): the command, its success,
\* the mode when it started (prev) and when it returned (mode), whether it had
\* switched mode (entered) or changed the document (mutated), whether its forced
\* save was issued (saved), and whether it ran from start to return with no
\* other handler and no reload in between (alone).
Ret(c, ok, prev, mode, entered, mutated, saved, alone) ==
  [command |-> c, ok |-> ok, prev |-> prev, mode |-> mode, entered |-> entered,
   mutated |-> mutated, saved |-> saved, alone |-> alone]
NoReturn == Ret("", FALSE, "editing", "editing", FALSE, FALSE, FALSE, TRUE)

\* args.occurrence: absent (undefined or null), an integer, or a string that
\* is not a number.
Absent == [t |-> "absent", v |-> 0]
NotANumber == [t |-> "NaN", v |-> 0]
Number(i) == [t |-> "int", v |-> i]
Occurrences == {Absent, NotANumber} \cup {Number(i) : i \in (0 - 1)..(MaxMatches + 1)}

\* Results of a lookup.  A match is named by its ordinal in document order;
\* ordinal 0 is the undefined element matches[NaN].
NoResult == [kind |-> "none", match |-> 0, count |-> 0]
TextNotFound == [kind |-> "TextNotFound", match |-> 0, count |-> 0]
OccurrenceNotFound(k) == [kind |-> "OccurrenceNotFound", match |-> 0, count |-> k]
Match(j) == [kind |-> "match", match |-> j, count |-> 0]
AllMatches(k) == [kind |-> "all", match |-> 0, count |-> k]

\* JavaScript truthiness of args.occurrence: undefined, null and 0 are falsy.
Truthy(occ) == occ.t = "NaN" \/ (occ.t = "int" /\ occ.v # 0)

\* matches[idx] after the range test "idx < 0 || idx >= matches.length", for
\* idx = parseInt(occ, 10) - 1; with parseInt = NaN both comparisons are false
\* and matches[NaN] is undefined.
Select(k, occ) ==
  IF occ.t = "NaN" THEN Match(0)
  ELSE IF occ.v - 1 < 0 \/ occ.v - 1 >= k THEN OccurrenceNotFound(k)
  ELSE Match(occ.v)

\* findMatch(activeEditor, search, occurrence) on a text with k matches.
findMatch(k, occ) ==
  IF k = 0 THEN TextNotFound
  ELSE IF Truthy(occ) THEN Select(k, occ)
  ELSE Match(1)

\* cmdReplaceText's own selection: "occurrence != null" decides.
replaceLookup(k, occ) ==
  IF k = 0 THEN TextNotFound
  ELSE IF occ.t # "absent" THEN Select(k, occ)
  ELSE AllMatches(k)

Boot ==
  /\ cmdFile = NoFile /\ watchEvents = 0 /\ started = FALSE /\ processing = FALSE
  /\ converting = NoFile /\ pendingCommands = [i \in Ids |-> NoPath]
  /\ agentWrites = 0 /\ dispatches = [k \in 1..MaxRequests |-> 0]
  /\ toWebview = << >>
  /\ toHost = << Msg("ready", NoId, "", "none", 0, FALSE, 0) >>
  /\ docData = 1 /\ lastSaveTime = 0 /\ writing = << >> /\ fileBytes = 1
  /\ fileEvents = 0 /\ reading = 0 /\ externalWrites = 0
  \* Date.now() starts far more than the window past lastSaveTime's initial 0
  /\ now = SUPPRESS_WINDOW
  /\ editor = 0 /\ inst = [i \in Insts |-> NoInst] /\ isInitialLoad = TRUE
  /\ saveTimeout = 0 /\ timers = {} /\ timersMade = 0 /\ saves = << >> /\ nextRev = 2
  /\ savedRev = 0 /\ lastChange = 0 /\ handled = "none" /\ lastReload = 0
  /\ fileWriter = "host"
  /\ applied = {} /\ returned = NoReturn /\ answered = 0

\* No handler under study.
NoArgs == [command |-> "none"]
NoRet == [command |-> "none"]
MatchIdle == matchCount = 0 /\ occurrence = Absent /\ found = NoResult /\ toReplace = NoResult
EditIdle == args = NoArgs /\ doc = << >> /\ ret = NoRet /\ calls = << >>

Init ==
  /\ Boot
  /\ MatchIdle
  /\ EditIdle

\* Anchor resolution on its own: a text with matchCount matches and an
\* args.occurrence, not yet looked up.
InitMatch ==
  /\ Boot
  /\ matchCount \in 0..MaxMatches /\ occurrence \in Occurrences
  /\ found = NoResult /\ toReplace = NoResult
  /\ EditIdle

\* cmdAddComment looks the match up with findMatch.
FindMatch ==
  /\ found = NoResult
  /\ found' = findMatch(matchCount, occurrence)
  /\ UNCHANGED <<bridgeVars, toWebview, toHost, docVars, now, webVars, savedRev, lastChange,
                 handled, lastReload, fileWriter, engineHist, matchCount, occurrence, toReplace,
                 editVars>>

\* cmdReplaceText selects the matches to replace.
ReplaceLookup ==
  /\ toReplace = NoResult
  /\ toReplace' = replaceLookup(matchCount, occurrence)
  /\ UNCHANGED <<bridgeVars, toWebview, toHost, docVars, now, webVars, savedRev, lastChange,
                 handled, lastReload, fileWriter, engineHist, matchCount, occurrence, found,
                 editVars>>

\* ------------------------------------------------ handlers on document text

\* The text of a one-paragraph document is a sequence of characters; the
\* character at index i lies between editor positions i and i + 1, so that
\* position 1 is the start of the document.  Texts are read with tracked
\* suggestions accepted.
Chars == {"a", "b"}
Strings(A, lo, hi) == UNION {[1..n -> A] : n \in lo..hi}
Texts == Strings(Chars, 0, MaxText)

\* activeEditor.commands.search(text): the occurrences of s in t in document
\* order, none overlapping an earlier one, each as {from, to}.
RECURSIVE SearchFrom(_, _, _)
SearchFrom(t, s, i) ==
  IF i + Len(s) - 1 > Len(t) THEN << >>
  ELSE IF SubSeq(t, i, i + Len(s) - 1) = s
       THEN <<[from |-> i, to |-> i + Len(s)]>> \o SearchFrom(t, s, i + Len(s))
       ELSE SearchFrom(t, s, i + 1)

searchText(t, s) == IF s = << >> THEN << >> ELSE SearchFrom(t, s, 1)

\* selectRange(from, to) followed by commands.insertContent(content): the
\* selected range is replaced by the content.
Splice(t, from, to, content) ==
  SubSeq(t, 1, from - 1) \o content \o SubSeq(t, to, Len(t))

Forward(ms) == ms

\* [...matches].reverse()
Reverse(ms) == [i \in 1..Len(ms) |-> ms[Len(ms) + 1 - i]]

\* for (const m of toReplace) { selectRange(m.from, m.to); insertContent(replacement) }
RECURSIVE ReplaceEach(_, _, _)
ReplaceEach(t, ms, r) ==
  IF ms = << >> THEN t
  ELSE ReplaceEach(Splice(t, Head(ms).from, Head(ms).to, r), Tail(ms), r)

Failure(c, e, t) ==
  [command |-> c, success |-> FALSE, error |-> e, doc |-> t, mode |-> "editing", saved |-> FALSE]

\* cmdReplaceText({search, replacement, occurrence}) on text t.
cmdReplaceText(t, a) ==
  LET matches == searchText(t, a.search)
      sel == replaceLookup(Len(matches), a.occurrence)
      toRep == IF sel.kind = "all" THEN Reverse(matches) ELSE <<matches[sel.match]>>
  IN  IF a.search = << >> THEN Failure("replaceText", "SearchRequired", t)
      ELSE IF sel.kind \in {"TextNotFound", "OccurrenceNotFound"}
      THEN Failure("replaceText", sel.kind, t)
      ELSE [command |-> "replaceText", success |-> TRUE, error |-> "none",
            doc |-> ReplaceEach(t, toRep, a.replacement), mode |-> "editing", saved |-> TRUE,
            order |-> toRep, replacedCount |-> Len(toRep)]

ReplaceArgs ==
  { [command |-> "replaceText", search |-> s, replacement |-> r, occurrence |-> o] :
      s \in Strings(Chars, 0, MaxSearch), r \in Strings(Chars \cup {"c"}, 0, MaxReplacement),
      o \in {Absent, Number(1)} }

InitReplace ==
  /\ Boot /\ MatchIdle
  /\ args \in ReplaceArgs /\ doc \in Texts /\ ret = NoRet /\ calls = << >>

ReplaceText ==
  /\ args.command = "replaceText" /\ ret = NoRet
  /\ ret' = cmdReplaceText(doc, args)
  /\ UNCHANGED <<sessionVars, args, doc, calls>>

NextReplace == ReplaceText

SpecReplace == InitReplace /\ [][NextReplace]_vars

\* ---- insertContent

Space == " "
DocTexts == Strings(Chars \cup {Space}, 0, MaxText)
Anchors == Strings({"a", Space}, 0, MaxSearch)

\* String.prototype.trim(): leading and trailing whitespace removed.
RECURSIVE TrimStart(_)
TrimStart(t) == IF t # << >> /\ Head(t) = Space THEN TrimStart(Tail(t)) ELSE t
RECURSIVE TrimEnd(_)
TrimEnd(t) ==
  IF t # << >> /\ t[Len(t)] = Space THEN TrimEnd(SubSeq(t, 1, Len(t) - 1)) ELSE t
Trim(t) == TrimEnd(TrimStart(t))

NoMatch == [from |-> 0, to |-> 0]

findAnchorLast(t, anchor) ==
  LET matches == searchText(t, anchor)
  IN  IF matches = << >> THEN NoMatch ELSE matches[Len(matches)]

\* findAnchor: matches[0] || null
findAnchor(t, anchor) ==
  LET matches == searchText(t, anchor)
  IN  IF matches = << >> THEN NoMatch ELSE matches[1]

\* cmdInsertContent({content, position}) on text t; an absent or empty
\* position.after / position.before is the empty string (both are falsy).
cmdInsertContent(t, a) ==
  LET anchor == IF a.after # << >> THEN a.after ELSE a.before
      insertAfter == a.after # << >>
      isEmptyDoc == Len(Trim(t)) = 0
      match == findAnchor(t, anchor)
      insertPos == IF isEmptyDoc THEN 1 ELSE IF insertAfter THEN match.to ELSE match.from
  IN  IF a.content = << >> THEN Failure("insertContent", "ContentRequired", t)
      ELSE IF anchor = << >> /\ ~isEmptyDoc
      THEN Failure("insertContent", "AnchorRequired", t)
      ELSE IF ~isEmptyDoc /\ match = NoMatch
      THEN Failure("insertContent", "TextNotFound", t)
      ELSE [command |-> "insertContent", success |-> TRUE, error |-> "none",
            doc |-> Splice(t, insertPos, insertPos, a.content), mode |-> "editing",
            saved |-> TRUE, pos |-> insertPos]

InsertArgs ==
  { [command |-> "insertContent", content |-> c, after |-> x, before |-> y] :
      c \in {<< >>, <<"c">>}, x \in Anchors, y \in Anchors }

InitInsert ==
  /\ Boot /\ MatchIdle
  /\ args \in InsertArgs /\ doc \in DocTexts /\ ret = NoRet /\ calls = << >>

InsertContent ==
  /\ args.command = "insertContent" /\ ret = NoRet
  /\ ret' = cmdInsertContent(doc, args)
  /\ UNCHANGED <<sessionVars, args, doc, calls>>

NextInsert == InsertContent

SpecInsert == InitInsert /\ [][NextInsert]_vars

\* ---- deleteNode

\* A document as its top-level nodes in document order, each with a type and
\* a nodeSize; node k starts at the position where node k - 1 ends.  uid
\* tells the nodes apart.
NodeTypes == {"paragraph", "table"}
NodeDocs ==
  UNION { { [k \in 1..n |-> [type |-> ty[k], nodeSize |-> sz[k], uid |-> k]] :
              ty \in [1..n -> NodeTypes], sz \in [1..n -> {2, 3}] } : n \in 0..MaxNodes }

\* The document position by position: slot p + 1 holds the uid of the node
\* that covers position p.
RECURSIVE Flatten(_)
Flatten(nodes) ==
  IF nodes = << >> THEN << >>
  ELSE [i \in 1..Head(nodes).nodeSize |-> Head(nodes).uid] \o Flatten(Tail(nodes))

\* activeEditor.getNodesOfType(type): {pos, node} of each node of the type.
RECURSIVE NodesFrom(_, _, _)
NodesFrom(nodes, type, pos) ==
  IF nodes = << >> THEN << >>
  ELSE (IF Head(nodes).type = type THEN <<[pos |-> pos, node |-> Head(nodes)]>> ELSE << >>)
       \o NodesFrom(Tail(nodes), type, pos + Head(nodes).nodeSize)

getNodesOfType(nodes, type) == NodesFrom(nodes, type, 0)

\* setTextSelection({from, to}) followed by deleteSelection(): the positions
\* from .. to - 1 are removed.
DeleteRange(slots, from, to) ==
  SubSeq(slots, 1, from) \o SubSeq(slots, to + 1, Len(slots))

OutOfRangeInclusive(idx, n) == idx < 0 \/ idx > n

\* idx < 0 || idx >= nodes.length
OutOfRange(idx, n) == idx < 0 \/ idx >= n

\* cmdDeleteNode({type, index}) on the nodes; a.mode is editor.documentMode on
\* entry, type "" a missing type.  An index that parses to NaN, or one the
\* range test lets through, reads nodes[idx] = undefined and the
\* destructuring throws; executeCommand turns that into a failure.
cmdDeleteNode(nodes, a) ==
  LET ofType == getNodesOfType(nodes, a.type)
      idx == a.index.v
      fail(e) == [command |-> "deleteNode", success |-> FALSE, error |-> e, count |-> Len(ofType),
                  doc |-> Flatten(nodes), mode |-> a.mode, saved |-> FALSE]
  IN  IF a.type = "" THEN fail("TypeRequired")
      ELSE IF a.index = Absent THEN fail("IndexRequired")
      ELSE IF ofType = << >> THEN fail("NoNodesFound")
      ELSE IF a.index.t = "int" /\ OutOfRange(idx, Len(ofType)) THEN fail("IndexOutOfRange")
      ELSE IF a.index.t = "NaN" \/ idx + 1 \notin DOMAIN ofType THEN fail("TypeError")
      ELSE [command |-> "deleteNode", success |-> TRUE, error |-> "none", count |-> Len(ofType),
            doc |-> DeleteRange(Flatten(nodes), ofType[idx + 1].pos,
                                ofType[idx + 1].pos + ofType[idx + 1].node.nodeSize),
            mode |-> "editing", saved |-> TRUE]

DeleteArgs ==
  { [command |-> "deleteNode", type |-> ty, index |-> i, mode |-> m] :
      ty \in NodeTypes \cup {""},
      i \in {Absent, NotANumber} \cup {Number(k) : k \in (0 - 1)..MaxNodes},
      m \in {"editing", "suggesting"} }

InitDelete ==
  /\ Boot /\ MatchIdle
  /\ args \in DeleteArgs /\ doc \in NodeDocs /\ ret = NoRet /\ calls = << >>

DeleteNode ==
  /\ args.command = "deleteNode" /\ ret = NoRet
  /\ ret' = cmdDeleteNode(doc, args)
  /\ UNCHANGED <<sessionVars, args, doc, calls>>

NextDelete == DeleteNode

SpecDelete == InitDelete /\ [][NextDelete]_vars

\* ---- insertTable

\* A document position by position: a sequence of tokens, one per position,
\* where an opening or closing tag of a node and a character each take one
\* position.  Position p lies before token p + 1.
Opens == {"<table>", "<tr>", "<td>", "<p>"}
Closes == {"</table>", "</tr>", "</td>", "</p>"}

RECURSIVE Concat(_)
Concat(ss) == IF ss = << >> THEN << >> ELSE Head(ss) \o Concat(Tail(ss))

Para(text) == <<"<p>">> \o text \o <<"</p>">>
Cell(text) == <<"<td>">> \o Para(text) \o <<"</td>">>
Row(texts) == <<"<tr>">> \o Concat([c \in DOMAIN texts |-> Cell(texts[c])]) \o <<"</tr>">>
Table(rows) == <<"<table>">> \o Concat([r \in DOMAIN rows |-> Row(rows[r])]) \o <<"</table>">>

\* Documents of one to MaxBlocks top-level blocks: a paragraph with or
\* without text, or a one-cell table with text.
BlockKinds == {Para(<<"a">>), Para(<< >>), Table(<< <<<<"b">>>> >>)}
TableDocs == UNION { {Concat(bs) : bs \in [1..n -> BlockKinds]} : n \in 1..MaxBlocks }

\* Nesting depth at position p.
Depth(tokens, p) ==
  Cardinality({i \in 1..p : tokens[i] \in Opens}) - Cardinality({i \in 1..p : tokens[i] \in Closes})

\* Positions inside a paragraph, where a text selection can sit.
TextPositions(tokens) ==
  {p \in 1..Len(tokens) - 1 : \E i \in 1..p : /\ tokens[i] = "<p>"
                                              /\ \A j \in i..p : tokens[j] # "</p>"}

\* searchText on the token sequence: {from, to} as positions.
searchDoc(tokens, s) ==
  LET ms == searchText(tokens, s)
  IN  [i \in DOMAIN ms |-> [from |-> ms[i].from - 1, to |-> ms[i].to - 1]]

\* commands.insertTable({rows, cols}) with the selection at sel: an empty
\* table placed after the top-level block that holds the selection.
BlockEnd(tokens, sel) ==
  CHOOSE q \in sel..Len(tokens) : Depth(tokens, q) = 0 /\ \A p \in sel..(q - 1) : Depth(tokens, p) > 0

EmptyTable(rows, cols) == Table([r \in 1..rows |-> [c \in 1..cols |-> << >>]])

InsertAt(tokens, p, content) == SubSeq(tokens, 1, p) \o content \o SubSeq(tokens, p + 1, Len(tokens))

\* getNodesOfType('table') and getNodesOfType('tableCell'): {pos, nodeSize}
\* of each, in document order.
NodeEnd(tokens, p, close) ==
  CHOOSE q \in (p + 1)..Len(tokens) : tokens[q] = close /\ \A j \in (p + 1)..(q - 1) : tokens[j] # close

RECURSIVE TagsFrom(_, _, _, _)
TagsFrom(tokens, open, close, i) ==
  IF i > Len(tokens) THEN << >>
  ELSE (IF tokens[i] = open
        THEN <<[pos |-> i - 1, nodeSize |-> NodeEnd(tokens, i - 1, close) - (i - 1)]>>
        ELSE << >>) \o TagsFrom(tokens, open, close, i + 1)

tablesOf(tokens) == TagsFrom(tokens, "<table>", "</table>", 1)
cellsOf(tokens) == TagsFrom(tokens, "<td>", "</td>", 1)

\* Build list of {cellIndex, content} pairs to insert: rows of data up to
\* tableRows, columns up to tableCols, falsy (empty) values skipped.
Insertions(data, tableRows, tableCols) ==
  UNION { { [cellIndex |-> (r - 1) * tableCols + (c - 1), content |-> data[r][c]] :
              c \in {k \in 1..tableCols : k <= Len(data[r]) /\ data[r][k] # << >>} } :
          r \in {k \in DOMAIN data : k <= tableRows} }

\* for (i = insertions.length - 1; i >= 0; i--): the pairs by descending
\* cellIndex, each inserted at tableCells[idx].pos + 2 if that cell exists.
RECURSIVE Populate(_, _, _)
Populate(tokens, tableCells, pending) ==
  IF pending = {} THEN tokens
  ELSE LET ins == CHOOSE x \in pending : \A y \in pending : y.cellIndex <= x.cellIndex
           idx == ins.cellIndex + 1
           next == IF idx \in DOMAIN tableCells
                   THEN InsertAt(tokens, tableCells[idx].pos + 2, ins.content)
                   ELSE tokens
       IN  Populate(next, tableCells, pending \ {ins})

\* tablesAfter.find(t => t.pos >= (insertPos || 0) - 5) || tablesAfter[last]
FindNewTable(tables, insertPos) ==
  LET hits == {i \in DOMAIN tables : tables[i].pos >= insertPos - 5}
  IN  IF hits # {} THEN CHOOSE i \in hits : \A j \in hits : i <= j ELSE Len(tables)

\* cmdInsertTable({rows, cols, data, position}) on the document d = {tokens,
\* selection}.  rows, cols: 0 when absent; data: << >> when absent, else a
\* sequence of rows of strings; after, before: the anchor or the empty string.
\* created, populated (history only): the ordinals, among the tables of the
\* document, of the table inserted and of the table whose cells were taken.
cmdInsertTable(d, a) ==
  LET tableRows == IF a.rows # 0 THEN a.rows ELSE IF a.data # << >> THEN Len(a.data) ELSE 2
      tableCols == IF a.cols # 0 THEN a.cols
                   ELSE IF a.data # << >> /\ a.data[1] # << >> THEN Len(a.data[1]) ELSE 2
      positioned == a.after # << >> \/ a.before # << >>
      anchor == IF a.after # << >> THEN a.after ELSE a.before
      ms == searchDoc(d.tokens, anchor)
      insertPos == IF ~positioned THEN 0 ELSE IF a.after # << >> THEN ms[1].to ELSE ms[1].from
      sel == IF positioned THEN insertPos ELSE d.selection
      at == BlockEnd(d.tokens, sel)
      withTable == InsertAt(d.tokens, at, EmptyTable(tableRows, tableCols))
      tablesAfter == tablesOf(withTable)
      newTable == tablesAfter[FindNewTable(tablesAfter, insertPos)]
      tableEnd == newTable.pos + newTable.nodeSize
      tableCells == SelectSeq(cellsOf(withTable),
                              LAMBDA cell : cell.pos >= newTable.pos /\ cell.pos < tableEnd)
      created == Cardinality({i \in DOMAIN tablesAfter : tablesAfter[i].pos <= at})
  IN  IF positioned /\ ms = << >>
      THEN [command |-> "insertTable", success |-> FALSE, error |-> "TextNotFound",
            doc |-> d.tokens, mode |-> "suggesting", saved |-> FALSE]
      ELSE [command |-> "insertTable", success |-> TRUE, error |-> "none",
            doc |-> IF a.data = << >> THEN withTable
                    ELSE Populate(withTable, tableCells, Insertions(a.data, tableRows, tableCols)),
            mode |-> "editing", saved |-> TRUE,
            rows |-> tableRows, cols |-> tableCols, created |-> created,
            populated |-> IF a.data = << >> THEN 0
                          ELSE FindNewTable(tablesAfter, insertPos)]

CellValues == {<< >>, <<"x">>, <<"y">>}
TableData ==
  {<< >>} \cup UNION { [1..r -> [1..c -> CellValues]] : r \in 1..MaxTable, c \in 1..MaxTable }

TableArgs ==
  { [command |-> "insertTable", rows |-> r, cols |-> c, data |-> da, after |-> p[1],
     before |-> p[2]] :
      r \in 0..MaxTable, c \in 0..MaxTable, da \in TableData,
      p \in {<< << >>, << >> >>, << <<"a">>, << >> >>, << << >>, <<"b">> >>} }

InitTable ==
  /\ Boot /\ MatchIdle
  /\ args \in TableArgs
  /\ doc \in UNION { { [tokens |-> t, selection |-> s] : s \in TextPositions(t) } : t \in TableDocs }
  /\ ret = NoRet /\ calls = << >>

InsertTable ==
  /\ args.command = "insertTable" /\ ret = NoRet
  /\ ret' = cmdInsertTable(doc, args)
  /\ UNCHANGED <<sessionVars, args, doc, calls>>

NextTable == InsertTable

SpecTable == InitTable /\ [][NextTable]_vars

\* ---- insertTableOfContents, deleteTableOfContents

\* Documents with bookmarks and a table of contents, position by position:
\* each token is {tag, name}; a character carries itself in name, a bookmark
\* its name/id, a tag nothing.  Where view.dispatch lets a node land is the
\* library's; tokens are inserted and deleted at the positions the handler
\* computes.
Tok(tag, name) == [tag |-> tag, name |-> name]
TocText(text) == [i \in DOMAIN text |-> Tok("char", text[i])]
TocPara(text) == <<Tok("<p>", "")>> \o TocText(text) \o <<Tok("</p>", "")>>
TocNode(paragraphs) ==
  <<Tok("<toc>", "")>> \o Concat([i \in DOMAIN paragraphs |-> TocPara(paragraphs[i])])
  \o <<Tok("</toc>", "")>>

\* The tokens as the strings a search runs over.
Names(tokens) == [i \in DOMAIN tokens |-> IF tokens[i].tag = "char" THEN tokens[i].name
                                          ELSE tokens[i].tag]

\* doc.textBetween(from, to, ' '): the characters between the positions, a
\* blank where a block starts.
RECURSIVE TextBetween(_, _, _)
TextBetween(tokens, from, to) ==
  IF from >= to THEN << >>
  ELSE (IF tokens[from + 1].tag = "char" THEN <<tokens[from + 1].name>>
        ELSE IF tokens[from + 1].tag = "<p>" THEN <<Space>> ELSE << >>)
       \o TextBetween(tokens, from + 1, to)

\* `_Toc_${i}_${timestamp}`
bookmarkName(i, timestamp) == "_Toc_" \o ToString(i) \o "_" \o ToString(timestamp)

startsWith(s, prefix) == Len(s) >= Len(prefix) /\ SubSeq(s, 1, Len(prefix)) = prefix

EntryCheckNoUpperLevel(tokens, e) ==
  IF e.level = 0 THEN "EntryIncomplete"
  ELSE IF e.level < 1 THEN "LevelOutOfRange"
  ELSE IF e.from >= e.to \/ e.from < 0 \/ e.to > Len(tokens) THEN "InvalidRange"
  ELSE IF Trim(TextBetween(tokens, e.from, e.to)) = << >> THEN "NoText"
  ELSE "ok"

\* The validation of one entry (826-839): "ok" or the reason it is rejected.
\* level 0 stands for a missing level.
EntryCheck(tokens, e) ==
  IF e.level = 0 THEN "EntryIncomplete"
  ELSE IF e.level < 1 \/ e.level > 6 THEN "LevelOutOfRange"
  ELSE IF e.from >= e.to \/ e.from < 0 \/ e.to > Len(tokens) THEN "InvalidRange"
  ELSE IF Trim(TextBetween(tokens, e.from, e.to)) = << >> THEN "NoText"
  ELSE "ok"

\* tr.mapping.map(pos) through one insertion of one node at position q.
MapPos(pos, q) == IF q <= pos THEN pos + 1 ELSE pos

\* [...resolvedEntries].sort((a, b) => b.from - a.from): the entries by
\* descending from, entries with equal from in their given order.
RECURSIVE SortDescending(_)
SortDescending(es) ==
  IF es = << >> THEN << >>
  ELSE LET k == CHOOSE i \in DOMAIN es :
                  /\ \A j \in DOMAIN es : es[j].from <= es[i].from
                  /\ \A j \in 1..(i - 1) : es[j].from < es[i].from
       IN  <<es[k]>> \o SortDescending(SubSeq(es, 1, k - 1) \o SubSeq(es, k + 1, Len(es)))

\* Step 1: for each entry, tr.insert(entry.to - 1, bmEnd) and then
\* tr.insert(entry.from + 1, bmStart); st = {tokens, pos} carries the
\* transaction's document and the insertion position mapped so far.
RECURSIVE InsertBookmarks(_, _)
InsertBookmarks(st, es) ==
  IF es = << >> THEN st
  ELSE LET e == Head(es)
           withEnd == InsertAt(st.tokens, e.to - 1, <<Tok("bookmarkEnd", e.bookmarkName)>>)
           withStart == InsertAt(withEnd, e.from + 1, <<Tok("bookmarkStart", e.bookmarkName)>>)
       IN  InsertBookmarks([tokens |-> withStart,
                            pos |-> MapPos(MapPos(st.pos, e.to - 1), e.from + 1)], Tail(es))

TocTitle == <<"T">>

\* cmdInsertTableOfContents({entries, position, title}) on the tokens, with
\* Date.now() = timestamp and editor.documentMode = a.mode on entry.  entries
\* << >>: missing or empty; title "default": undefined.  The styling of step 4
\* changes marks and paragraph attributes only and is not kept.
cmdInsertTableOfContents(tokens, a, timestamp) ==
  LET n == Len(a.entries)
      bad == {i \in 1..n : EntryCheck(tokens, a.entries[i]) # "ok"}
      firstBad == CHOOSE i \in bad : \A j \in bad : i <= j
      resolved == [i \in 1..n |->
                     [level |-> a.entries[i].level, from |-> a.entries[i].from,
                      to |-> a.entries[i].to,
                      text |-> Trim(TextBetween(tokens, a.entries[i].from, a.entries[i].to)),
                      bookmarkName |-> bookmarkName(i - 1, timestamp)]]
      anchor == IF a.after # << >> THEN a.after ELSE a.before
      ms == searchDoc(Names(tokens), anchor)
      insertPos == IF anchor = << >> THEN 1 ELSE IF a.after # << >> THEN ms[1].to ELSE ms[1].from
      marked == InsertBookmarks([tokens |-> tokens, pos |-> insertPos], SortDescending(resolved))
      tocTitle == IF a.title = "default" THEN TocTitle ELSE << >>
      tocNode == TocNode((IF tocTitle # << >> THEN <<tocTitle>> ELSE << >>)
                         \o [i \in 1..n |-> resolved[i].text])
      fail(e) == [command |-> "insertTableOfContents", success |-> FALSE, error |-> e,
                  doc |-> tokens, mode |-> a.mode, saved |-> FALSE, bookmarks |-> << >>]
  IN  IF n = 0 THEN fail("EntriesRequired")
      ELSE IF bad # {} THEN fail(EntryCheck(tokens, a.entries[firstBad]))
      ELSE IF anchor # << >> /\ ms = << >> THEN fail("TextNotFound")
      ELSE [command |-> "insertTableOfContents", success |-> TRUE, error |-> "none",
            doc |-> InsertAt(marked.tokens, marked.pos, tocNode), mode |-> "editing",
            saved |-> TRUE, bookmarks |-> [i \in 1..n |-> resolved[i].bookmarkName]]

\* Documents: a heading paragraph, alone or followed by a blank paragraph or
\* by a second paragraph with text.
TocDocs ==
  {TocPara(<<"a">>), TocPara(<<"a">>) \o TocPara(<<Space>>), TocPara(<<"a">>) \o TocPara(<<"b">>)}

\* Entries to try on a document: good and bad levels on good and bad ranges.
Levels == {0, 1, 6, 7}
EntryRanges(tokens) ==
  {<<0, 3>>, <<1, 2>>, <<2, 2>>, <<2, 1>>, <<0 - 1, 2>>, <<1, Len(tokens) + 1>>, <<3, Len(tokens)>>}
EntriesOn(tokens) ==
  { [level |-> l, from |-> r[1], to |-> r[2]] : l \in Levels, r \in EntryRanges(tokens) }

TocArgs(tokens) ==
  { [command |-> "insertTableOfContents", entries |-> es, after |-> p, before |-> << >>,
     title |-> "default", mode |-> m] :
      es \in UNION {[1..k -> EntriesOn(tokens)] : k \in 0..MaxEntries},
      p \in {<< >>, <<"a">>, <<"b">>}, m \in {"editing", "suggesting"} }

InitTocCheck ==
  /\ Boot /\ MatchIdle
  /\ doc \in TocDocs /\ args \in TocArgs(doc) /\ ret = NoRet /\ calls = << >>

InsertTableOfContents ==
  /\ args.command = "insertTableOfContents" /\ ret = NoRet
  /\ ret' = cmdInsertTableOfContents(doc, args, now)
  /\ UNCHANGED <<sessionVars, args, doc, calls>>

NextTocCheck == InsertTableOfContents

SpecTocCheck == InitTocCheck /\ [][NextTocCheck]_vars

\* doc.descendants: the position of the first tableOfContents node and its
\* nodeSize (0, 0 when there is none), and the positions of the bookmark
\* nodes whose name or id starts with '_Toc_'.
TocClose(tokens, p) ==
  CHOOSE q \in (p + 1)..Len(tokens) :
    /\ tokens[q].tag = "</toc>"
    /\ Cardinality({j \in (p + 2)..(q - 1) : tokens[j].tag = "<toc>"})
         = Cardinality({j \in (p + 2)..(q - 1) : tokens[j].tag = "</toc>"})
    /\ \A q2 \in (p + 1)..(q - 1) :
         tokens[q2].tag = "</toc>" =>
           Cardinality({j \in (p + 2)..(q2 - 1) : tokens[j].tag = "<toc>"})
             # Cardinality({j \in (p + 2)..(q2 - 1) : tokens[j].tag = "</toc>"})

FirstToc(tokens) ==
  LET opens == {i \in DOMAIN tokens : tokens[i].tag = "<toc>"}
      first == CHOOSE i \in opens : \A j \in opens : i <= j
  IN  IF opens = {} THEN [pos |-> 0, size |-> 0]
      ELSE [pos |-> first - 1, size |-> TocClose(tokens, first - 1) - (first - 1)]

TocBookmarks(tokens) ==
  { [pos |-> i - 1, size |-> 1] :
      i \in {j \in DOMAIN tokens : /\ tokens[j].tag \in {"bookmarkStart", "bookmarkEnd"}
                                   /\ startsWith(tokens[j].name, "_Toc_")} }

\* deletions.sort((a, b) => b.pos - a.pos); for each: tr.delete(pos, pos + size)
RECURSIVE DeleteEach(_, _)
DeleteEach(tokens, deletions) ==
  IF deletions = {} THEN tokens
  ELSE LET del == CHOOSE x \in deletions : \A y \in deletions : y.pos <= x.pos
       IN  DeleteEach(DeleteRange(tokens, del.pos, del.pos + del.size), deletions \ {del})

\* cmdDeleteTableOfContents({removeBookmarks}) on the tokens; the handler
\* leaves the document mode as it finds it.
cmdDeleteTableOfContents(tokens, a) ==
  LET toc == FirstToc(tokens)
      bookmarksToRemove == IF a.removeBookmarks THEN TocBookmarks(tokens) ELSE {}
  IN  IF toc.size = 0
      THEN [command |-> "deleteTableOfContents", success |-> FALSE, error |-> "NoTocFound",
            doc |-> tokens, mode |-> a.mode, saved |-> FALSE, bookmarks |-> << >>]
      ELSE [command |-> "deleteTableOfContents", success |-> TRUE, error |-> "none",
            doc |-> DeleteEach(tokens, {toc} \cup bookmarksToRemove), mode |-> a.mode,
            saved |-> TRUE, bookmarks |-> << >>]

\* Entries as the handler documents them: from before <p>, to after the
\* </p> that closes it, of a paragraph that holds text.
Balanced(tokens, f, t) ==
  LET opened(q) == Cardinality({j \in (f + 2)..q : tokens[j].tag = "<p>"})
      closed(q) == Cardinality({j \in (f + 2)..q : tokens[j].tag = "</p>"})
  IN  /\ opened(t - 1) = closed(t - 1)
      /\ \A q \in (f + 2)..(t - 1) : opened(q) >= closed(q)

HeadingEntries(tokens) ==
  { e \in [level : {1}, from : 0..Len(tokens), to : 0..Len(tokens)] :
      /\ EntryCheck(tokens, e) = "ok"
      /\ tokens[e.from + 1].tag = "<p>" /\ tokens[e.to].tag = "</p>"
      /\ Balanced(tokens, e.from, e.to) }

GoodTocArgs(tokens) ==
  { [command |-> "insertTableOfContents", entries |-> es, after |-> p, before |-> << >>,
     title |-> ti, mode |-> "editing"] :
      es \in UNION {[1..k -> HeadingEntries(tokens)] : k \in 1..MaxEntries},
      p \in {<< >>, <<"a">>, <<"b">>}, ti \in {"default", ""} }

Call(r, before) ==
  [command |-> r.command, success |-> r.success, before |-> before, bookmarks |-> r.bookmarks]

InitToc ==
  /\ Boot /\ MatchIdle
  /\ args = NoArgs /\ doc \in TocDocs /\ ret = NoRet /\ calls = << >>

\* One insertTableOfContents command, run to its end.
TocInsert(a) ==
  /\ Len(calls) < MaxCalls
  /\ args' = a
  /\ ret' = cmdInsertTableOfContents(doc, a, now)
  /\ doc' = ret'.doc
  /\ calls' = Append(calls, Call(ret', doc))
  /\ UNCHANGED sessionVars

\* One deleteTableOfContents command, run to its end.
TocDelete(rb) ==
  /\ Len(calls) < MaxCalls
  /\ args' = [command |-> "deleteTableOfContents", removeBookmarks |-> rb, mode |-> "editing"]
  /\ ret' = cmdDeleteTableOfContents(doc, args')
  /\ doc' = ret'.doc
  /\ calls' = Append(calls, Call(ret', doc))
  /\ UNCHANGED sessionVars

\* A millisecond passes between two commands.
ClockTick ==
  /\ now < SUPPRESS_WINDOW + MaxTocTicks
  /\ now' = now + 1
  /\ UNCHANGED <<bridgeVars, toWebview, toHost, docVars, webVars, histVars>>

NextToc ==
  \/ /\ Len(calls) < MaxCalls
     /\ Cardinality({i \in DOMAIN calls : calls[i].command = "insertTableOfContents"}) < MaxTocs
     /\ \E a \in GoodTocArgs(doc) : TocInsert(a)
  \/ \E rb \in BOOLEAN : TocDelete(rb)
  \/ ClockTick

SpecToc == InitToc /\ [][NextToc]_vars

\* ---- formatText

\* A string-valued option is "absent" (undefined), "false" (the literal
\* false), "empty" (the empty string) or "value" (a non-empty string); bold
\* is "absent", "true" or "false".
StringOption == {"absent", "false", "empty", "value"}
IsTruthy(v) == v = "value" \/ v = "true"

\* cmdFormatText({color, highlight, link, bold}): the editor commands it
\* issues, in order, and the applied list it returns, entry by entry.
cmdFormatText(a) ==
  LET hasFormat == \/ IsTruthy(a.color) \/ a.highlight # "absent" \/ a.bold # "absent"
                   \/ a.link # "absent"
      step(cond, op, note) == IF cond THEN <<[op |-> op, applied |-> note]>> ELSE << >>
      steps ==
        step(IsTruthy(a.color), "setColor", "color: value")
        \o (IF IsTruthy(a.highlight) THEN <<[op |-> "setHighlight", applied |-> "highlight: value"]>>
            ELSE step(a.highlight = "false", "unsetHighlight", "highlight: removed"))
        \o (IF a.bold = "true" THEN <<[op |-> "setBold", applied |-> "bold: true"]>>
            ELSE step(a.bold = "false", "unsetBold", "bold: false"))
        \o (IF IsTruthy(a.link) THEN <<[op |-> "setLink", applied |-> "link: value"]>>
            ELSE step(a.link = "false", "unsetLink", "link: removed"))
  IN  IF ~hasFormat
      THEN [command |-> "formatText", success |-> FALSE, error |-> "FormatRequired",
            ops |-> << >>, applied |-> << >>, mode |-> a.mode, saved |-> FALSE]
      ELSE [command |-> "formatText", success |-> TRUE, error |-> "none",
            ops |-> [i \in DOMAIN steps |-> steps[i].op],
            applied |-> [i \in DOMAIN steps |-> steps[i].applied], mode |-> a.mode,
            saved |-> TRUE]

FormatArgs ==
  { [command |-> "formatText", color |-> c, highlight |-> h, link |-> l, bold |-> b,
     mode |-> m] :
      c \in StringOption, h \in StringOption, l \in StringOption,
      b \in {"absent", "true", "false"}, m \in {"editing", "suggesting"} }

InitFormat ==
  /\ Boot /\ MatchIdle
  /\ args \in FormatArgs /\ doc = << >> /\ ret = NoRet /\ calls = << >>

FormatText ==
  /\ args.command = "formatText" /\ ret = NoRet
  /\ ret' = cmdFormatText(args)
  /\ UNCHANGED <<sessionVars, args, doc, calls>>

NextFormat == FormatText

SpecFormat == InitFormat /\ [][NextFormat]_vars

\* ---- author of tracked changes and comments

\* Handlers that call setAuthorIfProvided(author).
SetsAuthor(command) ==
  command \in {"replaceText", "insertContent", "insertTable", "insertTableOfContents"}

\* user: { name: 'Claude', email: 'claude@anthropic.com' } (initializeEditor)
DefaultIdentity == [name |-> DefaultUser, email |-> "claude@anthropic.com"]

\* args.author as {name, email}, "" for a field the caller does not give;
\* NoAuthor: no author at all.
NoAuthor == [name |-> "", email |-> ""]
AuthorArgs ==
  {NoAuthor, [name |-> "Alice", email |-> ""], [name |-> "Bob B", email |-> "bob@example.com"]}

\* name.toLowerCase().replace(/\s+/g, '.') for the names in use.
LowerDotted(name) == CASE name = "Alice" -> "alice" [] name = "Bob B" -> "bob.b" [] OTHER -> name

\* setAuthorIfProvided(author): editor.user afterwards.
setAuthorIfProvided(user, author) ==
  IF author.name = "" THEN user
  ELSE [name |-> author.name,
        email |-> IF author.email # "" THEN author.email
                  ELSE LowerDotted(author.name) \o "@user.local"]

\* The identity a command's tracked change or comment is attributed to, with
\* editor.user = user on entry: cmdAddComment names author and authorEmail
\* itself, each falling back to editor.user and then to the default; the
\* tracked edits take editor.user, which cmdReplaceText, cmdInsertContent and
\* cmdInsertTable set from args.author first and cmdDeleteNode does not.
AttributedTo(command, user, author) ==
  CASE command = "addComment" ->
         [name |-> IF author.name # "" THEN author.name ELSE user.name,
          email |-> IF author.email # "" THEN author.email ELSE user.email]
    [] SetsAuthor(command) -> setAuthorIfProvided(user, author)
    [] OTHER -> user

Attributing == {"replaceText", "insertContent", "insertTable", "deleteNode", "addComment"}

InitAuthor ==
  /\ Boot /\ MatchIdle
  /\ args = NoArgs /\ doc = [user |-> DefaultIdentity] /\ ret = NoRet /\ calls = << >>

\* One attributing command, run to its end; deleteNode takes no author.
RunAttributed(c, author) ==
  /\ Len(calls) < MaxCalls
  /\ c = "deleteNode" => author = NoAuthor
  /\ args' = [command |-> c, author |-> author]
  /\ doc' = [user |-> IF SetsAuthor(c) THEN setAuthorIfProvided(doc.user, author) ELSE doc.user]
  /\ ret' = [command |-> c, success |-> TRUE, by |-> AttributedTo(c, doc.user, author)]
  /\ calls' = Append(calls, [command |-> c, supplied |-> author # NoAuthor,
                             by |-> AttributedTo(c, doc.user, author)])
  /\ UNCHANGED sessionVars

NextAuthor == \E c \in Attributing, author \in AuthorArgs : RunAttributed(c, author)

SpecAuthor == InitAuthor /\ [][NextAuthor]_vars

\* ---- host: fetching an image over HTTP/HTTPS

\* The URLs a request or a Location header may name.
Urls == {"http://a", "https://b"}

\* What protocol.get(url) gives: a response with statusCode and
\* headers.location ("" when the header is absent), or 'error' (status 0).
Responses ==
  {[status |-> 200, location |-> ""], [status |-> 404, location |-> ""],
   [status |-> 0, location |-> ""], [status |-> 301, location |-> ""]}
    \cup {[status |-> st, location |-> u] : st \in {301, 302}, u \in Urls}

\* response.statusCode === 301 || 302 with a Location header:
\* fetchImageAsBase64(redirectUrl) is called.
Redirects(response) == response.status \in {301, 302} /\ response.location # ""

\* How fetchImageAsBase64 settles on a response it does not follow.
Settles(response) == IF response.status = 200 THEN "data" ELSE "error"

NoFetch == [url |-> "", redirects |-> 0]

\* The servers' answers are fixed per URL; the fetch starts at either URL.
InitFetch ==
  /\ Boot /\ MatchIdle
  /\ args \in {[command |-> "fetchImageAsBase64", src |-> u, web |-> w] :
                 u \in Urls, w \in [Urls -> Responses]}
  /\ doc = [url |-> args.src, redirects |-> 0]
  /\ ret = NoRet /\ calls = << >>

\* The response to the pending protocol.get arrives.  redirects (history
\* only): the redirects followed so far.
FetchResponse ==
  /\ ret = NoRet /\ doc.redirects < MaxRedirects
  /\ LET response == args.web[doc.url] IN
     IF Redirects(response)
     THEN /\ doc' = [url |-> response.location, redirects |-> doc.redirects + 1]
          /\ ret' = ret
     ELSE /\ ret' = [command |-> "fetchImageAsBase64", outcome |-> Settles(response)]
          /\ doc' = doc
  /\ UNCHANGED <<sessionVars, args, calls>>

NextFetch == FetchResponse

SpecFetch == InitFetch /\ [][NextFetch]_vars

\* ---- the transactions of insertTableOfContents and deleteTableOfContents

\* The steps the handler puts on its transaction tr, in the order of the
\* code: per entry tr.insert(bmEnd) then tr.insert(bmStart), and tr.insert of
\* the TOC node; or tr.delete of the TOC node and of each bookmark node found.
\* n: the number of entries, or of '_Toc_' bookmark nodes to remove.
TrSteps(a) ==
  IF a.command = "insertTableOfContents"
  THEN [k \in 1..(2 * a.n) |->
          [op |-> "insert", node |-> IF k % 2 = 1 THEN "bookmarkEnd" ELSE "bookmarkStart",
           of |-> (k + 1) \div 2]]
       \o <<[op |-> "insert", node |-> "tableOfContents", of |-> 0]>>
  ELSE <<[op |-> "delete", node |-> "tableOfContents", of |-> 0]>>
       \o [k \in 1..a.n |-> [op |-> "delete", node |-> "bookmark", of |-> k]]

TrArgs ==
  {[command |-> "insertTableOfContents", n |-> n] : n \in 1..MaxEntries}
    \cup {[command |-> "deleteTableOfContents", n |-> n] : n \in 0..MaxEntries}

\* Variant of Suspended: the handler also awaits while it builds tr.
SuspendedWhileBuilding(pc) == pc \in {"start", "building", "saving", "returned"}

\* Where another message handler, timer callback or export can run: before
\* the handler starts, while it awaits saveDocument(), and after it returned.
\* Between the first tr.insert or tr.delete and view.dispatch(tr) there is no
\* await.
Suspended(pc) == pc \in {"start", "saving", "returned"}

\* doc.applied: the steps the editor's document holds; doc.tr: the steps on
\* the handler's transaction; ret.pc: where the handler is.
InitTr ==
  /\ Boot /\ MatchIdle
  /\ args \in TrArgs
  /\ doc = [applied |-> {}, tr |-> << >>]
  /\ ret = [command |-> args.command, pc |-> "start"]
  /\ calls = << >>

\* tr.insert(...) or tr.delete(...): the next step goes on the transaction.
TrStep ==
  /\ ret.pc \in {"start", "building"} /\ Len(doc.tr) < Len(TrSteps(args))
  /\ doc' = [doc EXCEPT !.tr = Append(@, TrSteps(args)[Len(@) + 1])]
  /\ ret' = [ret EXCEPT !.pc = "building"]
  /\ UNCHANGED <<sessionVars, args, calls>>

\* activeEditor.view.dispatch(tr): the document takes every step at once.
Dispatch ==
  /\ ret.pc = "building" /\ Len(doc.tr) = Len(TrSteps(args))
  /\ doc' = [doc EXCEPT !.applied = @ \cup {doc.tr[k] : k \in DOMAIN doc.tr}]
  /\ ret' = [ret EXCEPT !.pc = "dispatched"]
  /\ UNCHANGED <<sessionVars, args, calls>>

\* await saveDocument(): the handler suspends.
AwaitSave ==
  /\ ret.pc = "dispatched"
  /\ ret' = [ret EXCEPT !.pc = "saving"]
  /\ UNCHANGED <<sessionVars, args, doc, calls>>

\* saveDocument settles and the handler returns its result.
HandlerReturns ==
  /\ ret.pc = "saving"
  /\ ret' = [ret EXCEPT !.pc = "returned"]
  /\ UNCHANGED <<sessionVars, args, doc, calls>>

\* Another command's handler, a reload or an autosave export runs and reads
\* the document.  calls: what each saw, and where the handler was.
Observe(by) ==
  /\ Suspended(ret.pc) /\ Len(calls) < MaxCalls
  /\ calls' = Append(calls, [command |-> by, pc |-> ret.pc, saw |-> doc.applied])
  /\ UNCHANGED <<sessionVars, args, doc, ret>>

NextTr ==
  \/ TrStep
  \/ Dispatch
  \/ AwaitSave
  \/ HandlerReturns
  \/ \E by \in {"executeCommand", "reload", "export"} : Observe(by)

SpecTr == InitTr /\ [][NextTr]_vars

\* ------------------------------------------------- command channel bridge

\* The external agent writes a request into the command file.  seq numbers the
\* agent's writes (history only).  fs.watch reports a write with one or more
\* events once the watcher exists.
AgentWrite(r, n) ==
  /\ agentWrites < MaxRequests
  /\ agentWrites' = agentWrites + 1
  /\ cmdFile' = [r EXCEPT !.seq = agentWrites + 1]
  /\ watchEvents' = IF started THEN watchEvents + n ELSE watchEvents
  /\ UNCHANGED <<started, processing, converting, pendingCommands, dispatches,
                 toWebview, toHost, docVars, now, webVars, histVars>>

\* writeCommandResponse: overwrite the command file and drop the table entry,
\* or do nothing when the id has no entry.  n: the watch events of the write.
writeCommandResponse(cmdId, result, n) ==
  IF pendingCommands[cmdId] = NoPath
  THEN UNCHANGED <<cmdFile, pendingCommands, watchEvents>>
  ELSE /\ cmdFile' = result
       /\ pendingCommands' = [pendingCommands EXCEPT ![cmdId] = NoPath]
       /\ watchEvents' = watchEvents + n

\* The bridge resolves the source itself only for insertImage with a src that
\* is not a data: URI.
NeedsConversion(cmd) == cmd.command = "insertImage" /\ cmd.src # "none" /\ cmd.src # "data"

Dispatched(cmd) == [dispatches EXCEPT ![cmd.seq] = @ + 1]

\* processCommandFile up to its first suspension (or to its end).
processCommandFile(cmd) ==
  /\ pendingCommands' = [pendingCommands EXCEPT ![cmd.id] = CmdPath]
  /\ IF NeedsConversion(cmd)
     THEN /\ converting' = cmd
          /\ processing' = TRUE
          /\ UNCHANGED <<toWebview, dispatches>>
     ELSE /\ toWebview' = Append(toWebview,
                 Msg("executeCommand", cmd.id, cmd.command, cmd.src, 0, FALSE, 0))
          /\ dispatches' = Dispatched(cmd)
          /\ processing' = FALSE
          /\ UNCHANGED converting

\* Variant of processIfExists: the content is processed whether or not it has
\* a 'command' field.
processIfExistsAnyContent ==
  IF processing \/ cmdFile.kind = "absent"
  THEN UNCHANGED <<processing, converting, pendingCommands, toWebview, dispatches>>
  ELSE processCommandFile(cmdFile)

processIfExists ==
  IF processing \/ cmdFile.kind = "absent"
  THEN UNCHANGED <<processing, converting, pendingCommands, toWebview, dispatches>>
  ELSE IF cmdFile.kind # "request"
  THEN /\ processing' = FALSE
       /\ UNCHANGED <<converting, pendingCommands, toWebview, dispatches>>
  ELSE processCommandFile(cmdFile)

\* setupCommandWatcher's own call of processIfExists, made once at set-up.
StartupCheck ==
  /\ ~started
  /\ started' = TRUE
  /\ processIfExists
  /\ UNCHANGED <<cmdFile, watchEvents, agentWrites, toHost, docVars, now, webVars, histVars>>

\* The fs.watch callback for the command file.
WatchEvent ==
  /\ started /\ watchEvents > 0
  /\ watchEvents' = watchEvents - 1
  /\ processIfExists
  /\ UNCHANGED <<cmdFile, started, agentWrites, toHost, docVars, now, webVars, histVars>>

\* convertImageToBase64 settles: processCommandFile resumes.
ConvertDone(ok, n) ==
  /\ converting.kind = "request"
  /\ converting' = NoFile
  /\ processing' = FALSE
  /\ IF ok
     THEN /\ toWebview' = Append(toWebview,
                 Msg("executeCommand", converting.id, "insertImage", "data", 0, FALSE, 0))
          /\ dispatches' = Dispatched(converting)
          /\ UNCHANGED <<cmdFile, pendingCommands, watchEvents>>
     ELSE /\ writeCommandResponse(converting.id, Response(converting.id, FALSE, 0), n)
          /\ UNCHANGED <<toWebview, dispatches>>
  /\ UNCHANGED <<started, agentWrites, toHost, docVars, now, webVars, histVars>>

\* ------------------------------------------------- host message handler

\* webview.onDidReceiveMessage: readyListener and setupMessageHandler.
HostReceive(n) ==
  /\ started /\ toHost # << >>
  /\ LET m == Head(toHost) IN
     /\ toHost' = Tail(toHost)
     /\ CASE m.type = "ready" ->
               /\ toWebview' = Append(toWebview, Msg("update", NoId, "", "none", docData, FALSE, 0))
               /\ UNCHANGED <<bridgeVars, docVars>>
          [] m.type = "update" ->
               \* document.update(); document.save() up to its await
               /\ docData' = m.content
               /\ lastSaveTime' = now
               /\ writing' = Append(writing, m.content)
               /\ UNCHANGED <<bridgeVars, toWebview, fileBytes, fileEvents, reading, externalWrites>>
          [] m.type = "commandResult" ->
               /\ writeCommandResponse(m.id, Response(m.id, m.success, m.result), n)
               /\ UNCHANGED <<started, processing, converting, agentWrites, dispatches,
                              toWebview, docVars>>
  /\ UNCHANGED <<now, webVars, histVars>>

\* vscode.workspace.fs.writeFile completes; the file watcher will see it.
WriteFileDone ==
  /\ writing # << >>
  /\ fileBytes' = Head(writing)
  /\ writing' = Tail(writing)
  /\ fileEvents' = fileEvents + 1
  /\ fileWriter' = "host"
  /\ UNCHANGED <<bridgeVars, toWebview, toHost, docData, lastSaveTime, reading, externalWrites,
                 now, webVars, savedRev, lastChange, handled, lastReload, engineHist, matchVars, editVars>>

\* --------------------------------------------- host file watcher and clock

\* Variant of RecentSave: the window's boundary counts as inside it.
RecentSaveInclusive == now - lastSaveTime <= SUPPRESS_WINDOW

\* Date.now() - document.lastSaveTime < 1000
RecentSave == now - lastSaveTime < SUPPRESS_WINDOW

\* Another process rewrites the backing file.
ExternalModify ==
  /\ externalWrites < MaxExternal /\ nextRev <= MaxRev
  /\ externalWrites' = externalWrites + 1
  /\ fileBytes' = nextRev
  /\ nextRev' = nextRev + 1
  /\ fileEvents' = fileEvents + 1
  /\ fileWriter' = "external"
  /\ UNCHANGED <<bridgeVars, toWebview, toHost, docData, lastSaveTime, writing, reading, now,
                 editor, inst, isInitialLoad, saveTimeout, timers, timersMade, saves,
                 savedRev, lastChange, handled, lastReload, engineHist, matchVars, editVars>>

\* watcher.onDidChange up to its await of reloadFromDisk.
FileChange ==
  /\ fileEvents > 0
  /\ fileEvents' = fileEvents - 1
  /\ IF RecentSave
     THEN /\ handled' = "suppressed"
          /\ UNCHANGED reading
     ELSE /\ handled' = "reading"
          /\ reading' = reading + 1
  /\ UNCHANGED <<bridgeVars, toWebview, toHost, docData, lastSaveTime, writing, fileBytes,
                 externalWrites, now, webVars, savedRev, lastChange, lastReload, fileWriter, engineHist, matchVars, editVars>>

\* Variant of ReadDone: the handler posts the bytes the host already holds
\* instead of the bytes it read.
ReadDoneStale ==
  /\ reading > 0
  /\ reading' = reading - 1
  /\ toWebview' = Append(toWebview, Msg("reload", NoId, "", "none", docData, FALSE, 0))
  /\ handled' = "reloaded"
  /\ lastReload' = docData
  /\ UNCHANGED <<bridgeVars, toHost, docData, lastSaveTime, writing, fileBytes, fileEvents,
                 externalWrites, now, webVars, savedRev, lastChange, fileWriter, engineHist, matchVars, editVars>>

\* readFile resolves: reloadFromDisk stores the bytes and the handler posts them.
ReadDone ==
  /\ reading > 0
  /\ reading' = reading - 1
  /\ docData' = fileBytes
  /\ toWebview' = Append(toWebview, Msg("reload", NoId, "", "none", fileBytes, FALSE, 0))
  /\ handled' = "reloaded"
  /\ lastReload' = fileBytes
  /\ UNCHANGED <<bridgeVars, toHost, lastSaveTime, writing, fileBytes, fileEvents,
                 externalWrites, now, webVars, savedRev, lastChange, fileWriter, engineHist, matchVars, editVars>>

\* Time passes, up to the next timer's due time; a timer that is due fires
\* before more time passes.
Tick ==
  /\ now < MaxNow
  /\ \A t \in timers : t.due > now
  /\ LET step == {now + TickMs, MaxNow} \cup {t.due : t \in timers}
     IN now' = CHOOSE x \in step : \A y \in step : x <= y
  /\ UNCHANGED <<bridgeVars, toWebview, toHost, docVars, webVars, histVars>>

\* ------------------------------------------------------ webview: autosave

clearTimeout(ts, h) == {t \in ts : t.id # h}

\* Variant of scheduleAutoSave: the pending timer is not cancelled.
scheduleAutoSaveNoClear ==
  /\ timers' = timers
                 \cup {[id |-> timersMade + 1, due |-> now + AUTO_SAVE_DELAY, owner |-> editor]}
  /\ saveTimeout' = timersMade + 1
  /\ timersMade' = timersMade + 1
  /\ lastChange' = now

\* scheduleAutoSave: cancel the timer saveTimeout names, start a new one.
\* owner (history only): the editor instance current when the timer was set.
scheduleAutoSave ==
  /\ timers' = clearTimeout(timers, saveTimeout)
                 \cup {[id |-> timersMade + 1, due |-> now + AUTO_SAVE_DELAY, owner |-> editor]}
  /\ saveTimeout' = timersMade + 1
  /\ timersMade' = timersMade + 1
  /\ lastChange' = now

\* The 'update' listener of setupEditorListeners, when instance i emits.
Listens(i) == inst[i].listener /\ ~isInitialLoad
OnUpdate(i) ==
  IF Listens(i) THEN scheduleAutoSave
  ELSE UNCHANGED <<timers, saveTimeout, timersMade, lastChange>>

\* saveDocument up to its await of editor.export.
\* prev, alone, inst (history only): the mode when the awaiting handler started,
\* whether nothing else has run on the session since, and the instance it ran on.
SaveEntry(by, id, command, rev) ==
  [by |-> by, id |-> id, command |-> command, bytes |-> inst[editor].content, rev |-> rev,
   prev |-> inst[editor].mode, alone |-> TRUE, inst |-> editor]

Remove(q, k) == [j \in 1..(Len(q) - 1) |-> IF j < k THEN q[j] ELSE q[j + 1]]
Max(a, b) == IF a >= b THEN a ELSE b

\* The debounce timer fires: saveDocument().
TimerFire(t) ==
  /\ t \in timers /\ t.due <= now
  /\ timers' = timers \ {t}
  /\ saves' = IF editor = 0 THEN saves ELSE Append(saves, SaveEntry("timer", NoId, "", 0))
  /\ UNCHANGED <<bridgeVars, toWebview, toHost, docVars, now, editor, inst, isInitialLoad,
                 saveTimeout, timersMade, nextRev, histVars>>

\* ------------------------------------------------ webview: editor lifecycle

\* Message listener, 'update' | 'reload' with data: initializeEditor.
\* destroyed: whether the previous instance's destroy() tore it down (it may be
\* absent or throw, which the code catches and ignores).
WebviewLoad(destroyed) ==
  /\ toWebview # << >> /\ Head(toWebview).type \in {"update", "reload"}
  /\ FreshInst # {}
  /\ LET m == Head(toWebview)
         k == CHOOSE i \in FreshInst : \A j \in FreshInst : i <= j
         torn == IF editor # 0 /\ destroyed
                 THEN [inst EXCEPT ![editor].st = "destroyed", ![editor].listener = FALSE]
                 ELSE inst
     IN /\ toWebview' = Tail(toWebview)
        /\ inst' = [torn EXCEPT ![k] = NewInst(m.content)]
        /\ editor' = k
        /\ isInitialLoad' = TRUE
  /\ UNCHANGED <<bridgeVars, toHost, docVars, now, saveTimeout, timers, timersMade, saves,
                 nextRev, histVars>>

\* The library creates the instance's editor (onEditorCreate): activeEditor exists.
EditorCreated(i) ==
  /\ inst[i].st = "loading"
  /\ inst' = [inst EXCEPT ![i].st = "created"]
  /\ UNCHANGED <<bridgeVars, toWebview, toHost, docVars, now, editor, isInitialLoad,
                 saveTimeout, timers, timersMade, saves, nextRev, histVars>>

\* Instance i calls its onReady: isInitialLoad = false; setupEditorListeners()
\* attaches the 'update' listener to the CURRENT editor's activeEditor, if any.
EditorReady(i) ==
  /\ inst[i].st = "created"
  /\ isInitialLoad' = FALSE
  /\ LET ready == [inst EXCEPT ![i].st = "ready"]
     IN inst' = IF editor # 0 /\ ready[editor].st \in {"created", "ready"}
                THEN [ready EXCEPT ![editor].listener = TRUE]
                ELSE ready
  /\ UNCHANGED <<bridgeVars, toWebview, toHost, docVars, now, editor,
                 saveTimeout, timers, timersMade, saves, nextRev, histVars>>

\* Instance i emits 'update': the population of a document still loading (st =
\* "created"), or a user edit of a ready one (a fresh revision).
ContentChange(i) ==
  /\ inst[i].st \in {"created", "ready"}
  /\ Listens(i) => timersMade < MaxTimers
  /\ IF inst[i].st = "ready"
     THEN /\ nextRev <= MaxRev
          /\ inst' = [inst EXCEPT ![i].content = nextRev]
          /\ nextRev' = nextRev + 1
     ELSE UNCHANGED <<inst, nextRev>>
  /\ OnUpdate(i)
  /\ UNCHANGED <<bridgeVars, toWebview, toHost, docVars, now, editor, isInitialLoad, saves,
                 savedRev, handled, lastReload, fileWriter, engineHist, matchVars, editVars>>

\* -------------------------------------------------- webview: command engine

\* vscode.postMessage({ type: 'commandResult', ...result }): result is the
\* handler's {success, result?, error?}; the request's id is not in it.
\* posted (history only): the bytes the handler's own saveDocument posted, 0 if
\* it posted none.
CommandResultMsg(ok, r, posted) == Msg("commandResult", NoId, "", "none", posted, ok, r)

\* Variant of ModeFor: no handler enters 'suggesting'.
ModeForEditing(command) == "editing"

\* Variant of Caught: the exception leaves executeCommand, no result is posted.
Rethrown(q) == q

\* The mode a handler switches to before it mutates.
ModeFor(command) ==
  IF command \in Tracked \cup {"insertTableOfContents"} THEN "suggesting" ELSE "editing"

\* Handlers that call setDocumentMode('editing') after their awaited save.
EndsInEditing(command) == command \in Tracked \cup {"insertTableOfContents"}

\* How a handler's run can go.  "invalid": a required argument is missing;
\* "notfound": the search text, anchor or index has no match; "fails":
\* commands.insertTable returns false; "throws": the editing library raises an
\* exception while the handler is applying its changes.
OutcomesOf(command) ==
  CASE command = "getText" -> {"ok", "invalid"}
    [] command = "formatText" -> {"ok", "invalid", "throws"}
    [] command = "insertTable" -> {"ok", "notfound", "fails", "throws"}
    [] command \in COMMANDS -> {"ok", "invalid", "notfound", "throws"}
    [] OTHER -> {"ok"}

\* The handler returns a failure before it has touched mode or document.
EarlyFailure(command, out) ==
  \/ out = "invalid"
  \/ out = "notfound" /\ command \notin {"insertTable", "insertImage"}

\* The handler returns a failure after its mode switch, with no change applied:
\* cmdInsertTable (anchor not found, insertTable false) and cmdInsertImage (anchor
\* not found, insertAtPosition threw and was caught by the handler).
LateFailure(command, out) ==
  \/ command = "insertTable" /\ out \in {"notfound", "fails"}
  \/ command = "insertImage" /\ out \in {"notfound", "throws"}

\* The mutations a handler applies, each with the mode it is applied in, when
\* it starts in mode prev.  cmdInsertTableOfContents dispatches its transaction
\* (bookmarks and the TOC node) before it switches to 'editing' for the styling.
Mutations(command, prev) ==
  CASE command \in Tracked ->
         {[command |-> command, kind |-> "content", mode |-> ModeFor(command)]}
    [] command = "insertImage" ->
         {[command |-> command, kind |-> "image", mode |-> ModeFor(command)]}
    [] command = "formatText" ->
         {[command |-> command, kind |-> "style", mode |-> "editing"]}
    [] command = "insertTableOfContents" ->
         {[command |-> command, kind |-> "toc", mode |-> ModeFor(command)],
          [command |-> command, kind |-> "style", mode |-> "editing"]}
    [] OTHER -> {}

\* The mode the handler has set by the time it suspends at await saveDocument().
ModeAtSave(command, prev) ==
  CASE command = "formatText" -> prev
    [] command = "insertTableOfContents" -> "editing"
    [] OTHER -> ModeFor(command)

\* The mode the handler has set when the library throws under it: formatText
\* has not restored yet; the TOC handler is styling in 'editing'.
ModeAtThrow(command) ==
  IF command = "insertTableOfContents" THEN "editing" ELSE ModeFor(command)

\* executeCommand's catch: the exception becomes a failure result.
Caught(q) == Append(q, CommandResultMsg(FALSE, 0, 0))

\* Another handler runs, or the editor is replaced: pending handlers are no
\* longer alone (history only).
Disturb(q) == [j \in 1..Len(q) |-> [q[j] EXCEPT !.alone = FALSE]]
PendingCommands(q) == {j \in 1..Len(q) : q[j].by = "command"}

\* Message listener, 'executeCommand': executeCommand(command, args) up to the
\* handler's await of saveDocument, or to its result when it does not get there.
\* out: how the run goes; author: args.author.name, or "none".
WebviewExecute(out, author) ==
  /\ toWebview # << >> /\ Head(toWebview).type = "executeCommand"
  /\ LET m == Head(toWebview)
         c == m.command
         prev == inst[editor].mode
         quiet == PendingCommands(saves) = {}
         fail == Append(toHost, CommandResultMsg(FALSE, 0, 0))
         named == IF SetsAuthor(c) /\ author # "none"
                  THEN [inst EXCEPT ![editor].user = author] ELSE inst
     IN
     /\ out \in OutcomesOf(c)
     /\ toWebview' = Tail(toWebview)
     /\ IF c \notin COMMANDS \/ ~HasActiveEditor(editor)
        THEN \* 'Unknown command: ...' or 'No active editor'
             /\ toHost' = fail
             /\ answered' = answered + 1
             /\ returned' = Ret(c, FALSE, "editing", "editing", FALSE, FALSE, FALSE, quiet)
             /\ saves' = Disturb(saves)
             /\ UNCHANGED <<inst, nextRev, timers, saveTimeout, timersMade, lastChange, applied>>
        ELSE IF EarlyFailure(c, out)
        THEN /\ toHost' = fail
             /\ answered' = answered + 1
             /\ returned' = Ret(c, FALSE, prev, prev, FALSE, FALSE, FALSE, quiet)
             /\ saves' = Disturb(saves)
             /\ UNCHANGED <<inst, nextRev, timers, saveTimeout, timersMade, lastChange, applied>>
        ELSE IF LateFailure(c, out)
        THEN /\ toHost' = fail
             /\ answered' = answered + 1
             /\ inst' = [named EXCEPT ![editor].mode = ModeFor(c)]
             /\ returned' = Ret(c, FALSE, prev, ModeFor(c), TRUE, FALSE, FALSE, quiet)
             /\ saves' = Disturb(saves)
             /\ UNCHANGED <<nextRev, timers, saveTimeout, timersMade, lastChange, applied>>
        ELSE IF ~Mutating(c)
        THEN /\ toHost' = Append(toHost, CommandResultMsg(TRUE, 0, 0))
             /\ answered' = answered + 1
             /\ returned' = Ret(c, TRUE, prev, prev, FALSE, FALSE, FALSE, quiet)
             /\ saves' = Disturb(saves)
             /\ UNCHANGED <<inst, nextRev, timers, saveTimeout, timersMade, lastChange, applied>>
        ELSE \* the handler changes the document
             /\ nextRev <= MaxRev
             /\ Listens(editor) => timersMade < MaxTimers
             /\ nextRev' = nextRev + 1
             /\ applied' = applied \cup Mutations(c, prev)
             /\ OnUpdate(editor)
             /\ IF out = "throws"
                THEN /\ inst' = [named EXCEPT ![editor].mode = ModeAtThrow(c),
                                              ![editor].content = nextRev]
                     /\ toHost' = Caught(toHost)
                     /\ answered' = answered + 1
                     /\ returned' = Ret(c, FALSE, prev, ModeAtThrow(c), TRUE, TRUE, FALSE, quiet)
                     /\ saves' = Disturb(saves)
                ELSE /\ inst' = [named EXCEPT ![editor].mode = ModeAtSave(c, prev),
                                              ![editor].content = nextRev]
                     /\ saves' = Append(Disturb(saves),
                          [by |-> "command", id |-> m.id, command |-> c, bytes |-> nextRev,
                           rev |-> nextRev, prev |-> prev, alone |-> quiet, inst |-> editor])
                     /\ UNCHANGED <<toHost, answered, returned>>
  /\ UNCHANGED <<bridgeVars, docVars, now, editor, isInitialLoad,
                 savedRev, handled, lastReload, fileWriter, matchVars, editVars>>

\* Variant of saveDocumentSettles: 'update' is posted whatever export gave.
saveDocumentPostsAnyway(k, outcome) ==
  /\ k \in 1..Len(saves)
  /\ LET s == saves[k]
         posted == Append(toHost, Msg("update", NoId, "", "none", s.bytes, FALSE, 0))
         last == IF EndsInEditing(s.command) THEN "editing" ELSE inst[editor].mode
     IN
     /\ savedRev' = IF outcome = "blob" THEN Max(savedRev, s.bytes) ELSE savedRev
     /\ IF s.by = "timer"
        THEN /\ toHost' = posted
             /\ saves' = Remove(saves, k)
             /\ UNCHANGED <<inst, returned, answered>>
        ELSE /\ toHost' = Append(posted, CommandResultMsg(TRUE, s.rev, IF outcome = "blob" THEN s.bytes ELSE 0))
             /\ answered' = answered + 1
             /\ saves' = Disturb(Remove(saves, k))
             /\ inst' = [inst EXCEPT ![editor].mode = last]
             /\ returned' = Ret(s.command, TRUE, s.prev, last, TRUE, TRUE, TRUE,
                                s.alone /\ s.inst = editor)
  /\ UNCHANGED <<bridgeVars, toWebview, docVars, now, editor, isInitialLoad, saveTimeout,
                 timers, timersMade, nextRev, lastChange, handled, lastReload, fileWriter,
                 applied, matchVars>>

\* editor.export settles and saveDocument finishes: with a blob it posts
\* 'update'; without one, or on an exception, it only logs.  A handler that
\* awaited it then makes its last mode switch, if it has one, and returns success.
saveDocumentSettles(k, outcome) ==
  /\ k \in 1..Len(saves)
  /\ LET s == saves[k]
         posted == IF outcome = "blob"
                   THEN Append(toHost, Msg("update", NoId, "", "none", s.bytes, FALSE, 0))
                   ELSE toHost
         last == IF EndsInEditing(s.command) THEN "editing" ELSE inst[editor].mode
     IN
     /\ savedRev' = IF outcome = "blob" THEN Max(savedRev, s.bytes) ELSE savedRev
     /\ IF s.by = "timer"
        THEN /\ toHost' = posted
             /\ saves' = Remove(saves, k)
             /\ UNCHANGED <<inst, returned, answered>>
        ELSE /\ toHost' = Append(posted, CommandResultMsg(TRUE, s.rev, IF outcome = "blob" THEN s.bytes ELSE 0))
             /\ answered' = answered + 1
             /\ saves' = Disturb(Remove(saves, k))
             /\ inst' = [inst EXCEPT ![editor].mode = last]
             /\ returned' = Ret(s.command, TRUE, s.prev, last, TRUE, TRUE, TRUE,
                                s.alone /\ s.inst = editor)
  /\ UNCHANGED <<bridgeVars, toWebview, docVars, now, editor, isInitialLoad, saveTimeout,
                 timers, timersMade, nextRev, lastChange, handled, lastReload, fileWriter,
                 applied, matchVars>>

SaveResolve(k, outcome) == saveDocumentSettles(k, outcome) /\ UNCHANGED editVars

\* saveDocument finishes, and the run is kept: who called it, what export
\* gave, the bytes it held and the clock.
ExportSettles(k, outcome) ==
  /\ Len(calls) < MaxCalls
  /\ saveDocumentSettles(k, outcome)
  /\ calls' = Append(calls, [command |-> "saveDocument", by |-> saves[k].by,
                             outcome |-> outcome, bytes |-> saves[k].bytes])
  /\ UNCHANGED <<args, doc, ret>>

\* ---- host: one provider, several open documents

\* The provider's editors: each has its own command file and watcher (with its
\* own processing flag) and its own webview; pendingCommands is one Map of the
\* provider.  doc[d]: the document's command file, the watch events of its
\* file not yet handled, its watcher's processing flag, the request whose
\* image is being resolved and the request its webview is running.
Docs == 1..MaxDocs
PathOf(d) == ".superdoc/doc" \o ToString(d) \o ".json"
DocAt(p) == CHOOSE d \in Docs : PathOf(d) = p

NoDoc == [file |-> NoFile, events |-> 0, processing |-> FALSE, converting |-> NoFile,
          running |-> NoFile, written |-> FALSE]

providerRest == <<cmdFile, watchEvents, started, processing, converting, agentWrites, dispatches,
                  toWebview, toHost, docVars, now, webVars, savedRev, lastChange, handled,
                  lastReload, fileWriter, engineHist, matchVars, args, ret>>

InitDocs ==
  /\ Boot /\ MatchIdle
  /\ args = NoArgs /\ ret = NoRet /\ calls = << >>
  /\ doc = [d \in Docs |-> NoDoc]

\* The agent writes a request into the command file of document d.
DocWrite(d, r) ==
  /\ ~doc[d].written
  /\ doc' = [doc EXCEPT ![d].file = r, ![d].events = 1, ![d].written = TRUE]
  /\ UNCHANGED <<pendingCommands, calls, providerRest>>

\* writeCommandResponse(cmdId, result), called for document d: the file named
\* by the table's entry for cmdId is overwritten and the entry deleted.
\* calls (history only): for which document the result was, and to which
\* document's file it went.
writeResponse(docs, d, cmdId, result) ==
  IF pendingCommands[cmdId] = NoPath
  THEN /\ doc' = docs
       /\ UNCHANGED <<pendingCommands, calls>>
  ELSE LET to == DocAt(pendingCommands[cmdId]) IN
       /\ doc' = [docs EXCEPT ![to].file = result, ![to].events = 1]
       /\ pendingCommands' = [pendingCommands EXCEPT ![cmdId] = NoPath]
       /\ calls' = Append(calls, [command |-> "writeCommandResponse", id |-> cmdId,
                                  of |-> d, to |-> to])

\* The fs.watch callback of document d: processIfExists and processCommandFile
\* up to the await of the image resolution or to the posting of executeCommand.
DocWatch(d) ==
  /\ doc[d].events > 0
  /\ LET cmd == doc[d].file IN
     IF doc[d].processing \/ cmd.kind # "request" \/ cmd.command = ""
     THEN /\ doc' = [doc EXCEPT ![d].events = 0]
          /\ UNCHANGED pendingCommands
     ELSE /\ pendingCommands' = [pendingCommands EXCEPT ![cmd.id] = PathOf(d)]
          /\ doc' = IF NeedsConversion(cmd)
                    THEN [doc EXCEPT ![d].events = 0, ![d].processing = TRUE,
                                     ![d].converting = cmd]
                    ELSE [doc EXCEPT ![d].events = 0, ![d].running = cmd]
  /\ UNCHANGED <<calls, providerRest>>

\* convertImageToBase64 settles for document d.
DocConvertDone(d, ok) ==
  /\ doc[d].converting.kind = "request"
  /\ LET cmd == doc[d].converting
         settled == [doc EXCEPT ![d].converting = NoFile, ![d].processing = FALSE]
     IN  IF ok
         THEN /\ doc' = [settled EXCEPT ![d].running = cmd]
              /\ UNCHANGED <<pendingCommands, calls>>
         ELSE writeResponse(settled, d, cmd.id, Response(cmd.id, FALSE, 0))
  /\ UNCHANGED providerRest

\* The webview of document d posts its commandResult (which carries no id) and
\* setupMessageHandler calls writeCommandResponse(message.id, ...).
DocCommandResult(d) ==
  /\ doc[d].running.kind = "request"
  /\ LET m == CommandResultMsg(TRUE, 0, 0) IN
     writeResponse([doc EXCEPT ![d].running = NoFile], d, m.id, Response(m.id, m.success, 0))
  /\ UNCHANGED providerRest

NextDocs ==
  \/ \E d \in Docs, r \in Requests : DocWrite(d, r)
  \/ \E d \in Docs : DocWatch(d)
  \/ \E d \in Docs, ok \in BOOLEAN : DocConvertDone(d, ok)
  \/ \E d \in Docs : DocCommandResult(d)

SpecDocs == InitDocs /\ [][NextDocs]_vars

\* ---- the dirty-flag autosave of src/main.js

\* doc: the editor's content (a revision number), isDirty, whether the
\* debounce timer saveTimeout is pending, the exports in flight (each the
\* revision it serialises) and the newest revision posted in an 'update'.
InitDirty ==
  /\ Boot /\ MatchIdle
  /\ args = NoArgs /\ ret = NoRet /\ calls = << >>
  /\ doc = [content |-> 1, isDirty |-> FALSE, saveTimeout |-> FALSE, exports |-> << >>,
            sent |-> 1]

\* handleContentChange: isDirty = true; clearTimeout; setTimeout(saveDocument).
handleContentChange ==
  /\ doc.content <= MaxChanges
  /\ doc' = [doc EXCEPT !.content = @ + 1, !.isDirty = TRUE, !.saveTimeout = TRUE]
  /\ UNCHANGED <<sessionVars, args, ret, calls>>

\* saveDocument up to its await of superdocInstance.export: it returns at once
\* when nothing is dirty.
saveDocumentStarts(d) ==
  IF ~d.isDirty THEN d ELSE [d EXCEPT !.exports = Append(@, d.content)]

\* The debounce timer fires.
DebounceFires ==
  /\ doc.saveTimeout /\ Len(doc.exports) < MaxExports
  /\ doc' = saveDocumentStarts([doc EXCEPT !.saveTimeout = FALSE])
  /\ UNCHANGED <<sessionVars, args, ret, calls>>

\* Ctrl/Cmd + S: saveDocument().
KeySave ==
  /\ Len(doc.exports) < MaxExports /\ doc.isDirty
  /\ doc' = saveDocumentStarts(doc)
  /\ UNCHANGED <<sessionVars, args, ret, calls>>

\* The export resolved: 'update' is posted and isDirty = false.
saveDocumentSent(d, bytes) ==
  [d EXCEPT !.exports = Tail(@), !.sent = Max(@, bytes), !.isDirty = FALSE]

\* The oldest export in flight settles; when it throws, saveDocument posts
\* 'error' and leaves isDirty alone.
ExportDone(ok) ==
  /\ doc.exports # << >>
  /\ doc' = IF ok THEN saveDocumentSent(doc, Head(doc.exports))
            ELSE [doc EXCEPT !.exports = Tail(@)]
  /\ UNCHANGED <<sessionVars, args, ret, calls>>

NextDirty ==
  \/ handleContentChange
  \/ DebounceFires
  \/ KeySave
  \/ \E ok \in BOOLEAN : ExportDone(ok)

SpecDirty == InitDirty /\ [][NextDirty]_vars

\* ------------------------------------------------------------ specifications

Outcomes == {"ok", "invalid", "notfound", "fails", "throws"}
Authors == {"none", "Alice"}
ExportOutcomes == {"blob", "none", "throw"}

\* The command round trip of the agent's first request, with the clock held
\* (inside one debounce window).
Next ==
  \/ \E r \in Requests, n \in 1..MaxDupEvents : agentWrites = 0 /\ AgentWrite(r, n)
  \/ StartupCheck
  \/ WatchEvent
  \/ \E ok \in BOOLEAN, n \in 1..MaxDupEvents : ConvertDone(ok, n)
  \/ \E n \in 1..MaxDupEvents : HostReceive(n)
  \/ WriteFileDone
  \/ WebviewLoad(TRUE)
  \/ \E i \in Insts : EditorCreated(i)
  \/ \E i \in Insts : EditorReady(i)
  \/ \E out \in Outcomes, a \in Authors : WebviewExecute(out, a)
  \/ \E k \in 1..Len(saves), o \in ExportOutcomes : SaveResolve(k, o)

Spec == Init /\ [][Next]_vars

\* The autosave and reload loop under the clock, with no command traffic.
NextSave ==
  \/ StartupCheck
  \/ HostReceive(1)
  \/ WriteFileDone
  \/ ExternalModify
  \/ FileChange
  \/ ReadDone
  \/ Tick
  \/ \E d \in BOOLEAN : WebviewLoad(d)
  \/ \E i \in Insts : EditorCreated(i)
  \/ \E i \in Insts : EditorReady(i)
  \/ \E i \in Insts : ContentChange(i)
  \/ \E t \in timers : TimerFire(t)
  \/ \E k \in 1..Len(saves), o \in ExportOutcomes : SaveResolve(k, o)

SpecSave == Init /\ [][NextSave]_vars

\* What the agent may ask of the command engine: every command of COMMANDS and
\* an unknown one; an image comes as a data: URI.
EngineRequests ==
  { [kind |-> "request", id |-> NoId, command |-> c,
     src |-> IF c = "insertImage" THEN "data" ELSE "none",
     success |-> FALSE, result |-> 0, seq |-> 0] : c \in COMMANDS \cup {Unknown} }

\* The command engine under a sequence of requests, one watch event per write.
NextEngine ==
  \/ \E r \in EngineRequests : AgentWrite(r, 1)
  \/ StartupCheck
  \/ WatchEvent
  \/ HostReceive(1)
  \/ WriteFileDone
  \/ WebviewLoad(TRUE)
  \/ \E i \in Insts : EditorCreated(i)
  \/ \E i \in Insts : EditorReady(i)
  \/ \E out \in Outcomes, a \in Authors : WebviewExecute(out, a)
  \/ \E k \in 1..Len(saves), o \in ExportOutcomes : SaveResolve(k, o)

SpecEngine == Init /\ [][NextEngine]_vars

\* The Bridge under a sequence of requests, with image resolution, one watch
\* event per write.
NextBridge ==
  \/ \E r \in Requests : AgentWrite(r, 1)
  \/ StartupCheck
  \/ WatchEvent
  \/ \E ok \in BOOLEAN : ConvertDone(ok, 1)
  \/ HostReceive(1)
  \/ WriteFileDone
  \/ WebviewLoad(TRUE)
  \/ \E i \in Insts : EditorCreated(i)
  \/ \E i \in Insts : EditorReady(i)
  \/ \E out \in Outcomes, a \in Authors : WebviewExecute(out, a)
  \/ \E k \in 1..Len(saves), o \in ExportOutcomes : SaveResolve(k, o)

SpecBridge == Init /\ [][NextBridge]_vars

\* What the agent asks while saves fail: one mutating command.
ExportRequests == {r \in EngineRequests : r.command = "replaceText"}

\* Debounced and forced saves together, under the clock: user edits, the
\* agent's commands, and exports that give a blob, give none, or throw.
NextExport ==
  \/ \E r \in ExportRequests : agentWrites = 0 /\ AgentWrite(r, 1)
  \/ StartupCheck
  \/ WatchEvent
  \/ HostReceive(1)
  \/ WriteFileDone
  \/ Tick
  \/ WebviewLoad(TRUE)
  \/ \E i \in Insts : EditorCreated(i)
  \/ \E i \in Insts : EditorReady(i)
  \/ \E i \in Insts : ContentChange(i)
  \/ \E t \in timers : TimerFire(t)
  \/ WebviewExecute("ok", "none")
  \/ \E k \in 1..Len(saves), o \in ExportOutcomes : ExportSettles(k, o)

SpecExport == Init /\ [][NextExport]_vars

\* Anchor resolution for every input.
NextMatch == FindMatch \/ ReplaceLookup

SpecMatch == InitMatch /\ [][NextMatch]_vars

\* ------------------------------------------------------------------ claims

\* Nothing is in flight anywhere between the agent and the backing file.
Quiescent ==
  /\ started /\ watchEvents = 0 /\ converting.kind # "request"
  /\ toWebview = << >> /\ toHost = << >> /\ saves = << >> /\ writing = << >>

ResultsInFlight == {j \in 1..Len(toHost) : toHost[j].type = "commandResult"}

\* C1: every request the Bridge forwarded is answered: once nothing is in
\* flight any more, its result has been written to the command file and its
\* Pending Command Table entry is gone.
C1_ForwardedRequestAnswered ==
  Quiescent => \A i \in Ids : pendingCommands[i] = NoPath

\* C2: each request the agent wrote is forwarded to the Command Engine at most
\* once, however many watch events its write raised.
C2_ForwardedAtMostOnce ==
  \A k \in 1..MaxRequests : dispatches[k] <= 1

\* C3: a commandResult with success = true for a command that mutated the
\* document (result: the revision it produced) is posted only after an
\* 'update' carrying an export of that revision or a later one.
C3_UpdateBeforeSuccess ==
  \A j \in ResultsInFlight :
    toHost[j].success /\ toHost[j].result > 0 => savedRev >= toHost[j].result

\* C4: when the command file holds a successful result of a mutating command
\* whose export the webview did post, the backing file already holds bytes
\* exported after that mutation.
C4_FileWrittenBeforeResult ==
  cmdFile.kind = "response" /\ cmdFile.success /\ cmdFile.result > 0
    /\ savedRev >= cmdFile.result
  => fileBytes >= cmdFile.result

\* C5: a command whose forced export produced no blob or threw (its
\* saveDocument posted nothing) is not reported with success = true.
C5_ExportFailureSurfaced ==
  \A j \in ResultsInFlight :
    toHost[j].result > 0 /\ toHost[j].content = 0 => ~toHost[j].success

\* Every file-change event has been handled; no re-read or write is in flight.
WatcherIdle == fileEvents = 0 /\ reading = 0 /\ writing = << >>

ReloadMsg(d) == Msg("reload", NoId, "", "none", d, FALSE, 0)

\* C6: a file-change event handled less than 1000 ms after the last recorded
\* save time posts nothing and leaves the host's bytes alone; one handled 1000
\* ms or more after it starts exactly one re-read, and a re-read that finishes
\* stores the bytes it read and posts exactly one 'reload' carrying them.
C6_SuppressionWindow ==
  [][ /\ fileEvents' < fileEvents =>
           /\ docData' = docData /\ toWebview' = toWebview
           /\ reading' = IF now - lastSaveTime < 1000 THEN reading ELSE reading + 1
      /\ reading' < reading =>
           /\ reading' = reading - 1
           /\ docData' = fileBytes
           /\ toWebview' = Append(toWebview, ReloadMsg(fileBytes)) ]_vars

\* C6 witness: the host's own write was followed by its change event inside
\* the window, and the event was dropped.
C6_Witness ==
  /\ handled = "suppressed" /\ WatcherIdle
  /\ fileWriter = "host" /\ lastSaveTime > 0 /\ now - lastSaveTime < 1000
  /\ docData = fileBytes

C8_Debounce ==
  [][ /\ Cardinality(timers') <= 1
      /\ timersMade' > timersMade =>
           \E t \in timers' : timers' = {t} /\ t.id = timersMade' /\ t.due = now + 1000
      /\ (timersMade' = timersMade /\ timers' # timers) =>
           /\ now = lastChange + 1000
           /\ Len(saves') = Len(saves) + 1
           /\ saves'[Len(saves')].by = "timer" ]_vars

\* C8 witness: a burst of two changes ended in one export, started by the
\* second change's timer.
C8_Witness ==
  /\ timersMade = 2 /\ timers = {} /\ now = lastChange + 1000
  /\ Len(saves) = 1 /\ saves[1].by = "timer" /\ savedRev = 0

\* C9: while the current editor instance has not reported ready, no step
\* schedules an autosave.
CurrentLoading == editor # 0 /\ inst[editor].st \in {"loading", "created"}
C9_NoAutosaveWhileLoading ==
  [][ CurrentLoading => timersMade' = timersMade ]_vars

\* C10: a timer that fires (its export starts) was set during the current
\* Document Session, and a session starts with the default mode and identity.
C10_NoStaleSessionState ==
  [][ /\ \A t \in timers :
           (t \notin timers' /\ Len(saves') = Len(saves) + 1 /\ saves'[Len(saves')].by = "timer")
             => t.owner = editor
      /\ editor' # editor =>
           inst'[editor'].mode = "editing" /\ inst'[editor'].user = DefaultUser ]_vars

\* A handler has returned after running with no other handler in between.
ReturnedAlone == returned.command # "" /\ returned.alone

\* C11: when a mutating command has returned its success result, the document's
\* mode is the mode it had when the command started.
C11_ModeRestored ==
  ReturnedAlone /\ Mutating(returned.command) /\ returned.ok
    => returned.mode = returned.prev

\* C12: when a handler returns a failure after it has switched mode or changed
\* the document, the mode is back at what it was when the handler started, and
\* if the document was changed the forced save was issued.
C12_FailureRestoresAndSaves ==
  ReturnedAlone /\ ~returned.ok /\ (returned.entered \/ returned.mutated)
    => returned.mode = returned.prev /\ (returned.mutated => returned.saved)

\* C13: every change applied by replaceText, insertContent, deleteNode and
\* insertTable was applied while the mode was 'suggesting'.
C13_TrackedEditsInSuggesting ==
  \A a \in applied : a.command \in Tracked => a.mode = "suggesting"

\* C13 witness: replaceText applied its change while insertImage, which had set
\* 'editing', was suspended at its save.
C13_Witness ==
  /\ \E a \in applied : a.command = "replaceText" /\ a.mode = "suggesting"
  /\ \E j, k \in PendingCommands(saves) :
       j < k /\ saves[j].command = "insertImage" /\ saves[k].command = "replaceText"
             /\ saves[k].prev = "editing"

\* C14: the image node of insertImage and the transaction that inserts the
\* table-of-contents node are applied while the mode is 'editing'.
C14_ImageAndTocInEditing ==
  \A a \in applied : a.kind \in {"image", "toc"} => a.mode = "editing"

\* C15: formatText applies its style changes in 'editing', and when it returns
\* success the mode is the mode that was active when it started.
C15_FormatTextRestores ==
  /\ \A a \in applied : a.command = "formatText" => a.mode = "editing"
  /\ returned.command = "formatText" /\ returned.ok => returned.mode = returned.prev

\* C16: at most one command handler is between its start and its return.
C16_NoInterleaving == Cardinality(PendingCommands(saves)) <= 1

\* The webview takes an executeCommand message / a handler's awaited save settles.
ExecStep ==
  /\ toWebview # << >> /\ Head(toWebview).type = "executeCommand"
  /\ toWebview' = Tail(toWebview)
ResumeStep == Cardinality(PendingCommands(saves')) < Cardinality(PendingCommands(saves))
IsResult(q) == Len(q) > 0 /\ q[Len(q)].type = "commandResult"

ResolveFailStep ==
  /\ converting.kind = "request" /\ converting' = NoFile /\ dispatches' = dispatches
ForwardStep ==
  /\ cmdFile.kind = "request" /\ converting' = converting
  /\ dispatches'[cmdFile.seq] = dispatches[cmdFile.seq] + 1

\* C18: when resolving an insertImage source fails, the Bridge writes the
\* failure result {id, success: false} to the command file, removes the
\* request's pending entry and posts no executeCommand for the request, then or
\* earlier; a source that is a data: URI is forwarded as it is, with no
\* resolution step.
C18_ResolutionFailureShortCircuits ==
  [][ /\ ResolveFailStep =>
           /\ cmdFile' = Response(converting.id, FALSE, 0)
           /\ pendingCommands'[converting.id] = NoPath
           /\ toWebview' = toWebview
           /\ dispatches[converting.seq] = 0
      /\ ForwardStep /\ cmdFile.src = "data" =>
           toWebview' = Append(toWebview,
              Msg("executeCommand", cmdFile.id, cmdFile.command, "data", 0, FALSE, 0)) ]_vars

\* The Bridge handles a watch event or makes its start-up check.
CheckStep == watchEvents' = watchEvents - 1 \/ started' # started

\* C19: a check that finds a Command Result in the command file (no 'command'
\* field) dispatches nothing, registers no pending entry, posts no message and
\* leaves the file alone; an entry is registered or a request dispatched only
\* for a file content that has a 'command' field.
C19_ResponseNeverDispatched ==
  [][ /\ CheckStep /\ cmdFile.kind = "response" =>
           UNCHANGED <<cmdFile, pendingCommands, toWebview, dispatches, converting>>
      /\ (CheckStep /\ <<pendingCommands, toWebview, dispatches>>' # <<pendingCommands, toWebview, dispatches>>)
           => cmdFile.kind = "request" /\ cmdFile.command # "" ]_vars

\* C19 witness: the Bridge wrote a result and has handled every watch event of
\* that write; nothing was dispatched for it.
C19_Witness ==
  /\ cmdFile.kind = "response" /\ started /\ watchEvents = 0
  /\ toWebview = << >> /\ \A i \in Ids : pendingCommands[i] = NoPath

\* C20: for a search text with k >= 1 matches and an integer occurrence i,
\* findMatch returns the i-th match in document order when 1 <= i <= k and
\* fails with OccurrenceNotFound reporting k otherwise (i > k, i < 1, i = 0);
\* and findMatch and replaceText's lookup give the same match or the same kind
\* of error.
C20_OrdinalSelection ==
  /\ (found # NoResult /\ matchCount >= 1 /\ occurrence.t = "int") =>
        found = IF 1 <= occurrence.v /\ occurrence.v <= matchCount
                THEN Match(occurrence.v) ELSE OccurrenceNotFound(matchCount)
  /\ (found # NoResult /\ toReplace # NoResult /\ occurrence.t = "int") =>
        found.kind = toReplace.kind /\ found.match = toReplace.match

\* The text t with each range of ms, ascending and non-overlapping, read as r
\* and everything between the ranges kept, from position pos on.
RECURSIVE Rebuild(_, _, _, _)
Rebuild(t, ms, r, pos) ==
  IF ms = << >> THEN SubSeq(t, pos, Len(t))
  ELSE SubSeq(t, pos, Head(ms).from - 1) \o r \o Rebuild(t, Tail(ms), r, Head(ms).to)

Descending(ms) == \A i, j \in 1..Len(ms) : i < j => ms[i].from > ms[j].from

Range(f) == {f[i] : i \in DOMAIN f}

ReplacedAll ==
  /\ ret.command = "replaceText" /\ args.occurrence = Absent
  /\ Len(searchText(doc, args.search)) > 1

\* C21: replaceText without an occurrence on a text with N > 1 matches
\* replaces the match ranges in descending position order, reports
\* replacedCount = N, keeps every character outside the match ranges unchanged
\* and in order, and afterwards a fresh search for the original string finds
\* no match, whatever the length of the replacement.
C21_ReplaceAllLeavesNoMatch ==
  ReplacedAll =>
    /\ ret.success /\ ret.replacedCount = Len(searchText(doc, args.search))
    /\ Descending(ret.order)
    /\ ret.doc = Rebuild(doc, searchText(doc, args.search), args.replacement, 1)
    /\ searchText(ret.doc, args.search) = << >>

\* C21, amended: as above, but the fresh search is promised to find nothing
\* only when the replacement is not empty and has no character in common with
\* the search string.
C21_ReplaceAll ==
  ReplacedAll =>
    /\ ret.success /\ ret.replacedCount = Len(searchText(doc, args.search))
    /\ Descending(ret.order)
    /\ ret.doc = Rebuild(doc, searchText(doc, args.search), args.replacement, 1)
    /\ (args.replacement # << >> /\ Range(args.replacement) \cap Range(args.search) = {})
          => searchText(ret.doc, args.search) = << >>

\* Three matches replaced by a longer and by a shorter replacement.
C21_Witness ==
  /\ ReplacedAll /\ ret.success /\ ret.replacedCount = 3
  /\ Len(args.replacement) # Len(args.search)
  /\ Range(args.replacement) \cap Range(args.search) = {}
  /\ args.replacement # << >>

\* What insertContent owes for content given, on a document that counts as
\* empty or not.
InsertContentRule(empty) ==
  LET anchor == IF args.after # << >> THEN args.after ELSE args.before
      ms == searchText(doc, anchor)
      at == IF args.after # << >> THEN ms[1].to ELSE ms[1].from
  IN  (ret.command = "insertContent" /\ args.content # << >>) =>
        IF empty
        THEN ret.success /\ ret.doc = args.content \o doc
        ELSE IF anchor = << >> THEN ~ret.success /\ ret.error = "AnchorRequired"
        ELSE IF ms = << >> THEN ~ret.success /\ ret.error = "TextNotFound"
        ELSE /\ ret.success /\ ret.pos = at
             /\ ret.doc = SubSeq(doc, 1, at - 1) \o args.content \o SubSeq(doc, at, Len(doc))

\* C22: on a non-empty document insertContent inserts at the end of the first
\* match of the anchor for position.after and at its start for
\* position.before, fails with a validation error without an anchor and with
\* TextNotFound when the anchor has no match; on a document whose text is
\* empty it inserts at the document start and succeeds, anchor or not.
C22_InsertContentAnchoring == InsertContentRule(doc = << >>)

\* C22, amended: the same with "empty" read as: the text has no character
\* other than whitespace.
C22_InsertContentAnchoringTrimmed == InsertContentRule(\A i \in 1..Len(doc) : doc[i] = Space)

\* Content inserted after the first of two matches of the anchor.
C22_Witness ==
  /\ ret.command = "insertContent" /\ ret.success /\ args.after # << >>
  /\ Len(searchText(doc, args.after)) >= 2 /\ ret.pos = searchText(doc, args.after)[1].to
  /\ \E i \in 1..Len(doc) : doc[i] # Space

\* The nodes of the document that have the given type, in document order.
OfType(nodes, type) == SelectSeq(nodes, LAMBDA n : n.type = type)

\* The document without the node of the given uid.
Without(nodes, u) == SelectSeq(nodes, LAMBDA n : n.uid # u)

\* C23: deleteNode({type, index}) with n nodes of the type fails with
\* NoNodesFound when n = 0 and with IndexOutOfRange reporting n when
\* index < 0 or index >= n, leaving document and mode as they were and saving
\* nothing; for 0 <= index < n it deletes exactly the range of the index-th
\* node of the type in document order and no other node.
C23_DeleteNode ==
  LET same == OfType(doc, args.type)
      n == Len(same)
      i == args.index.v
      untouched == ret.doc = Flatten(doc) /\ ret.mode = args.mode /\ ~ret.saved
  IN  (ret.command = "deleteNode" /\ args.type # "" /\ args.index.t = "int") =>
        IF n = 0 THEN ~ret.success /\ ret.error = "NoNodesFound" /\ untouched
        ELSE IF i < 0 \/ i >= n
             THEN ~ret.success /\ ret.error = "IndexOutOfRange" /\ ret.count = n /\ untouched
             ELSE ret.success /\ ret.doc = Flatten(Without(doc, same[i + 1].uid))

\* The second of two paragraphs with a table between them was deleted.
C23_Witness ==
  /\ ret.command = "deleteNode" /\ ret.success /\ args.index = Number(1)
  /\ Len(doc) = 3 /\ doc[2].type # args.type /\ ret.doc = Flatten(SubSeq(doc, 1, 2))

\* The text of the paragraph of the cell at position p.
CellText(tokens, cell) == SubSeq(tokens, cell.pos + 3, cell.pos + cell.nodeSize - 2)

\* The cells, in row-major order, of the k-th table of the document.
CellsOfTable(tokens, k) ==
  LET t == tablesOf(tokens)[k]
  IN  SelectSeq(cellsOf(tokens), LAMBDA cell : cell.pos >= t.pos /\ cell.pos < t.pos + t.nodeSize)

\* C24: insertTable with data writes data[r][c] into the cell with row-major
\* index r * cols + c of the table it created, for every r < rows and
\* c < cols with a non-empty value, without disturbing a cell written later:
\* after the command the cells of that table, read in row-major order, hold
\* the data (and nothing where the data has no value).
C24_TableHoldsData ==
  (ret.command = "insertTable" /\ ret.success /\ args.data # << >>) =>
    LET cells == CellsOfTable(ret.doc, ret.created)
    IN  /\ Len(cells) = ret.rows * ret.cols
        /\ \A r \in 1..ret.rows, c \in 1..ret.cols :
             CellText(ret.doc, cells[(r - 1) * ret.cols + c]) =
               IF r <= Len(args.data) /\ c <= Len(args.data[r]) THEN args.data[r][c] ELSE << >>

\* An entry the claim calls invalid: level outside 1..6, from >= to, from < 0,
\* to beyond the document size, or a range without text.
InvalidEntry(e) ==
  \/ e.level < 1 \/ e.level > 6
  \/ e.from >= e.to \/ e.from < 0 \/ e.to > Len(doc)
  \/ \A p \in (e.from + 1)..e.to : doc[p].tag # "char"

\* C25: insertTableOfContents rejects the whole command, with no mutation, no
\* mode change and no save, when entries is missing or empty or any entry is
\* invalid; it mutates the document only when every entry is valid and the
\* position anchor, if given, is found.
C25_TocValidation ==
  LET es == args.entries
      anyInvalid == \E i \in DOMAIN es : InvalidEntry(es[i])
      anchorFound == \E i \in DOMAIN doc : doc[i] = Tok("char", args.after[1])
  IN  ret.command = "insertTableOfContents" =>
        /\ (es = << >> \/ anyInvalid) =>
              ~ret.success /\ ret.doc = doc /\ ret.mode = args.mode /\ ~ret.saved
        /\ ret.doc # doc => ~anyInvalid /\ es # << >> /\ (args.after # << >> => anchorFound)

\* Two valid entries and an anchor that is found: bookmarks and the table of
\* contents are in the document.
C25_Witness ==
  /\ ret.command = "insertTableOfContents" /\ ret.success /\ Len(args.entries) = 2
  /\ args.after # << >> /\ ret.doc # doc
  /\ \E i \in DOMAIN ret.doc : ret.doc[i].tag = "<toc>"

Inserts == {i \in DOMAIN calls : calls[i].command = "insertTableOfContents" /\ calls[i].success}

\* C26: two insertTableOfContents commands of one session give disjoint sets
\* of bookmark identifiers, whatever the times the clock gives them (the same
\* millisecond included), and within one command the identifiers of distinct
\* entries differ.
C26_BookmarksDisjoint ==
  /\ \A i, j \in Inserts : i # j => Range(calls[i].bookmarks) \cap Range(calls[j].bookmarks) = {}
  /\ \A i \in Inserts : \A k, l \in DOMAIN calls[i].bookmarks :
        k # l => calls[i].bookmarks[k] # calls[i].bookmarks[l]

\* The paragraphs of the document: its nodes other than table-of-contents and
\* bookmark nodes.
ParagraphCount(tokens) == Cardinality({i \in DOMAIN tokens : tokens[i].tag = "<p>"})

\* The last two commands were a successful insertTableOfContents and then
\* deleteTableOfContents({removeBookmarks: true}).
InsertedThenDeleted ==
  /\ Len(calls) >= 2 /\ (Len(calls) - 1) \in Inserts
  /\ ret.command = "deleteTableOfContents" /\ args.removeBookmarks

\* C27: insertTableOfContents followed by deleteTableOfContents with
\* removeBookmarks returns the document to the count of nodes, other than
\* TOC and bookmark nodes, that it had before the insertion: the delete
\* succeeds and takes away the inserted table of contents with its
\* paragraphs and the '_Toc_' bookmarks, and nothing else.
C27_InsertDeleteRoundTrip ==
  InsertedThenDeleted =>
    /\ ret.success
    /\ ParagraphCount(doc) = ParagraphCount(calls[Len(calls) - 1].before)

\* What formatText owes for one of color, highlight, link: the option's value,
\* the values of the other options, and the names of its set and unset
\* commands and of its removal note.
StringOptionRule(v, othersAbsent, setOp, unsetOp, removed) ==
  /\ v = "value" => ret.success /\ setOp \in Range(ret.ops)
  /\ v = "false" /\ ret.success => unsetOp \in Range(ret.ops)
  /\ v = "false" /\ othersAbsent => ret.success /\ removed \in Range(ret.applied)

\* C28: in formatText each of color, highlight and link is set when given a
\* non-empty string and removed when given the literal false, and a call
\* whose only option is one of them set to false passes validation and
\* reports the removal in its applied list.
C28_StringOptions ==
  LET none(S) == \A f \in S : args[f] = "absent"
  IN  ret.command = "formatText" =>
        /\ StringOptionRule(args.color, none({"highlight", "link", "bold"}),
                            "setColor", "unsetColor", "color: removed")
        /\ StringOptionRule(args.highlight, none({"color", "link", "bold"}),
                            "setHighlight", "unsetHighlight", "highlight: removed")
        /\ StringOptionRule(args.link, none({"color", "highlight", "bold"}),
                            "setLink", "unsetLink", "link: removed")

\* C29: a command that supplies no author attributes its tracked changes or
\* its comment to the default identity, name 'Claude' and email
\* 'claude@anthropic.com', also after an earlier command of the session
\* supplied another author.
C29_DefaultAuthor ==
  \A i \in DOMAIN calls :
    (calls[i].command \in Attributing /\ ~calls[i].supplied) => calls[i].by = DefaultIdentity


\* The 'update' messages among the messages posted to the host.
UpdatesIn(q) == {j \in 1..Len(q) : q[j].type = "update"}

\* A step in which saveDocument finishes after export gave no blob or threw.
ExportFailed ==
  /\ Len(calls') = Len(calls) + 1
  /\ calls'[Len(calls')].command = "saveDocument"
  /\ calls'[Len(calls')].outcome \in {"none", "throw"}

\* C30: when export returns no blob or throws, in a debounced or a forced save,
\* saveDocument posts no 'update', raises no error to its caller (a debounced
\* save posts nothing at all; the handler behind a forced save goes on to post
\* its successful result), and leaves the editor instance, its content and
\* listener, the initial-load flag and the debounce timers as they were, so
\* that later changes and commands schedule and perform saves as before.
C30_ExportFailureSkipped ==
  [][ExportFailed =>
       LET by == calls'[Len(calls')].by IN
       /\ Cardinality(UpdatesIn(toHost')) = Cardinality(UpdatesIn(toHost))
       /\ by = "timer" => toHost' = toHost /\ inst' = inst /\ answered' = answered
       /\ by = "command" =>
            /\ Len(toHost') = Len(toHost) + 1
            /\ toHost'[Len(toHost')].type = "commandResult"
            /\ toHost'[Len(toHost')].success
            /\ returned'.ok
       /\ editor' = editor /\ isInitialLoad' = isInitialLoad
       /\ saveTimeout' = saveTimeout /\ timers' = timers /\ savedRev' = savedRev
       /\ \A i \in Insts : /\ inst'[i].st = inst[i].st
                           /\ inst'[i].content = inst[i].content
                           /\ inst'[i].listener = inst[i].listener]_vars

\* A forced save failed, and a later change was saved by the debounce timer.
C30_Witness ==
  \E i, j \in DOMAIN calls :
    /\ i < j
    /\ calls[i].command = "saveDocument" /\ calls[i].by = "command"
    /\ calls[i].outcome \in {"none", "throw"}
    /\ calls[j].command = "saveDocument" /\ calls[j].by = "timer"
    /\ calls[j].outcome = "blob" /\ calls[j].bytes > calls[i].bytes


\* C31: resolving an HTTP/HTTPS image source follows at most one redirect; a
\* response that redirects a second time is not followed.
C31_AtMostOneRedirect == doc.redirects <= 1


\* A step in which a host write completes and leaves no host write in flight.
LastWriteCompletes ==
  /\ writing # << >> /\ writing' = << >>
  /\ fileEvents' = fileEvents + 1 /\ fileWriter' = "host"

\* C32: the save timestamp is the time at which the host's most recent write
\* completed: when a write completes and no other host write is in flight,
\* lastSaveTime is not earlier than the completion time, so the change event
\* of the write is suppressed for 1000 ms from its completion.
C32_SaveTimeIsCompletionTime ==
  [][LastWriteCompletes => lastSaveTime' >= now']_vars


\* C33: when insertTable is given data, the cells it populates belong to the
\* table created by that same command, whatever tables the document already
\* holds before or after the insertion point, with or without a position.
C33_PopulatesOwnTable ==
  (ret.command = "insertTable" /\ ret.success /\ args.data # << >>) =>
    ret.populated = ret.created


\* The tokens of the result that the document held before the command: those
\* that are neither bookmarks nor part of the table of contents.
Original(tokens, j) ==
  LET toc == FirstToc(tokens)
  IN  /\ tokens[j].tag \notin {"bookmarkStart", "bookmarkEnd"}
      /\ ~(j > toc.pos /\ j <= toc.pos + toc.size)

\* The point of the document before the transaction at which the token at
\* index k of the result was inserted.
PointBefore(tokens, k) == Cardinality({j \in 1..(k - 1) : Original(tokens, j)})

IndexOf(tokens, tok) == CHOOSE k \in DOMAIN tokens : tokens[k] = tok

\* C34: in insertTableOfContents' transaction, for every accepted list of
\* entries, each entry's bookmarkStart lands at the point that was at from + 1
\* and its bookmarkEnd at the point that was at to - 1 before the transaction,
\* and the table of contents lands at the point that was at the insertion
\* position resolved before the transaction.
C34_BookmarksLandInsideRanges ==
  (ret.command = "insertTableOfContents" /\ ret.success) =>
    LET anchor == IF args.after # << >> THEN args.after ELSE args.before
        ms == searchDoc(Names(doc), anchor)
        insertPos == IF anchor = << >> THEN 1
                     ELSE IF args.after # << >> THEN ms[1].to ELSE ms[1].from
    IN  /\ \A i \in DOMAIN args.entries :
             /\ PointBefore(ret.doc, IndexOf(ret.doc, Tok("bookmarkStart", ret.bookmarks[i])))
                  = args.entries[i].from + 1
             /\ PointBefore(ret.doc, IndexOf(ret.doc, Tok("bookmarkEnd", ret.bookmarks[i])))
                  = args.entries[i].to - 1
        /\ PointBefore(ret.doc, FirstToc(ret.doc).pos + 1) = insertPos


\* C35: no handler suspends between the sub-steps of its transaction: every
\* other command, reload or autosave export runs while the handler is not
\* between its first tr.insert or tr.delete and the dispatch, and sees a
\* document that holds none of the transaction's steps or all of them.
C35_TransactionIndivisible ==
  \A i \in DOMAIN calls :
    /\ calls[i].pc # "building"
    /\ calls[i].saw \in {{}, {TrSteps(args)[k] : k \in DOMAIN TrSteps(args)}}

\* An autosave export ran while insertTableOfContents with two entries awaited
\* its save, and a reload had run before the handler started.
C35_Witness ==
  /\ args.command = "insertTableOfContents" /\ args.n = 2
  /\ \E i, j \in DOMAIN calls :
       /\ calls[i].command = "reload" /\ calls[i].pc = "start" /\ calls[i].saw = {}
       /\ calls[j].command = "export" /\ calls[j].pc = "saving"
       /\ Cardinality(calls[j].saw) = 5


\* A step in which a handler runs into a missing argument or a failed lookup.
RejectedStep == \E out \in {"invalid", "notfound"}, a \in Authors : WebviewExecute(out, a)

\* C36: a command that fails on argument validation or on a failed lookup
\* leaves the document's content, its mode and the attribution identity as
\* they were, and issues no save.
C36_FailureLeavesNoTrace ==
  [][RejectedStep => inst' = inst /\ saves' = Disturb(saves) /\ timers' = timers]_vars


\* C37: a request written to the command file while the Bridge is resolving
\* the image source of an earlier request is dispatched: once nothing is in
\* flight any more, the command file does not hold a request that was never
\* dispatched.
C37_RequestDuringResolutionDispatched ==
  (Quiescent /\ cmdFile.kind = "request" /\ cmdFile.command # "") =>
    dispatches[cmdFile.seq] >= 1


\* C38: a Command Result is written only to the command file of the document
\* whose request it answers, also when two open documents have requests in
\* flight with equal ids.
C38_ResultToOwnDocument ==
  \A i \in DOMAIN calls :
    calls[i].command = "writeCommandResponse" => calls[i].to = calls[i].of


\* C39: in the dirty-flag autosave every content change is included in an
\* export sent to the host: whenever no export is in flight, content that no
\* posted export holds is still marked dirty, so that the pending debounce
\* timer saves it.
C39_UnsentChangeStaysDirty ==
  (doc.exports = << >> /\ doc.content > doc.sent) => doc.isDirty


\* No host read or write and no message is in flight, every change event has
\* been handled, and the file's last write was the host's own.
HostSettled ==
  /\ started /\ writing = << >> /\ reading = 0 /\ fileEvents = 0
  /\ toHost = << >> /\ toWebview = << >> /\ saves = << >>
  /\ fileWriter = "host"

\* C40: whenever no host read, write or message is in flight and no external
\* process has modified the file since, the host's in-memory bytes equal the
\* backing file's bytes, also when an 'update' was handled while a
\* reloadFromDisk read was in flight or two writes overlapped.
C40_HostAndFileAgree == HostSettled => docData = fileBytes

====
